---------------------------- MODULE Spec2Model ----------------------------
(***************************************************************************)
(* A model of sqlweb's multi-dialect database access layer:                *)
(*   db/sql          DbType and the statement templates                    *)
(*   db/connection   ConnectToDatabase / Disconnect                        *)
(*   pkg/client      the Client facade and its operations                  *)
(*   pkg/query       UpdateRow / ExecuteQuery                              *)
(*   pkg/handler     the HTTP handlers sharing one *Client                 *)
(*                                                                         *)
(* The module holds several specifications over one set of variables:      *)
(*   Spec        one request goroutine driving the handlers in sequence    *)
(*   SpecConc    two request goroutines interleaving on the shared client  *)
(*   SpecExport  two ShowCreateTablePostgreSQL calls on one session        *)
(*   SpecSelect  the pure query builder buildSelectAll                     *)
(***************************************************************************)
EXTENDS Integers, Sequences, FiniteSets, TLC

(***************************************************************************)
(* Bounds of the model.                                                    *)
(***************************************************************************)
MaxHandles == 2
MaxTables == 2
MaxCols == 2
MaxPage == 1
MaxRows == 3
MaxCount == 30

(***************************************************************************)
(* db/sql/type.go : DbType                                                 *)
(***************************************************************************)
MySQL == 1
PostgreSQL == 2
SQLite == 3
Unsupported == 4

\* the zero value of DbType, as held by the Client{} that NewHandler builds
ZeroType == 0

DbTypes == {ZeroType, MySQL, PostgreSQL, SQLite, Unsupported}

\* func (t DbType) String() string
TypeString(t) ==
    IF t >= MySQL /\ t <= SQLite
    THEN <<"MySQL", "PostgreSQL", "SQLite">>[t]
    ELSE "Unsupported"

\* strings.ToLower on the dialect names that reach it
ToLower(s) ==
    CASE s = "MySQL" -> "mysql"
      [] s = "MYSQL" -> "mysql"
      [] s = "PostgreSQL" -> "postgresql"
      [] s = "SQLite" -> "sqlite"
      [] s = "Unsupported" -> "unsupported"
      [] s = "Oracle" -> "oracle"
      [] OTHER -> s

\* the databaseType strings a connect request may carry
TypeNames == {"mysql", "MYSQL", "PostgreSQL", "sqlite", "Oracle", ""}

\* a parse that compares the name as it was written
parseDbTypeCaseSensitive(dbType) ==
    CASE dbType = "mysql" -> MySQL
      [] dbType = "postgresql" -> PostgreSQL
      [] dbType = "sqlite" -> SQLite
      [] OTHER -> Unsupported

\* db/connection/connection.go : parseDbType
parseDbType(dbType) ==
    CASE ToLower(dbType) = "mysql" -> MySQL
      [] ToLower(dbType) = "postgresql" -> PostgreSQL
      [] ToLower(dbType) = "sqlite" -> SQLite
      [] OTHER -> Unsupported

\* the switch every Client operation opens with:
\*   switch strings.ToLower(c.Type.String()) { case strings.ToLower(_sql.X.String()) ...
IsDialect(t, d) == ToLower(TypeString(t)) = ToLower(TypeString(d))

(***************************************************************************)
(* Errors.  NoErr is Go's nil error.                                       *)
(***************************************************************************)
NoErr == "nil"
ErrNilConn == "database connection is nil"
ErrClosed == "sql: database is closed"
ErrDriver == "driver error"
ErrEmptyType == "database type cannot be empty"
ErrUnsupportedType == "unsupported database type"
ErrBadBody == "invalid request body"
Panic == "panic: nil pointer dereference"

(***************************************************************************)
(* database/sql handles.  Nil is the nil *sql.DB; a handle is an index     *)
(* into the sequence of all handles sql.Open has produced.                 *)
(***************************************************************************)
Nil == 0

NewDB(target) ==
    [state |-> "open", pinged |-> FALSE, probed |-> FALSE, target |-> target]

IsOpen(hs, db) == db # Nil /\ hs[db].state = "open"

\* (*sql.DB).Close: closing a closed handle is a no-op returning nil; closing
\* an open one always leaves it closed, whatever the driver reports.
CloseDB(hs, db, closeFails) ==
    IF hs[db].state = "closed"
    THEN [hs |-> hs, err |-> NoErr]
    ELSE [hs |-> [hs EXCEPT ![db].state = "closed"],
          err |-> IF closeFails THEN ErrDriver ELSE NoErr]

(***************************************************************************)
(* The database behind a handle.  Every connection target holds a list of  *)
(* tables; a statement is recorded by the template it was built from and   *)
(* the arguments substituted into it.                                      *)
(***************************************************************************)
DbNames == {"shop"}

AllTables == <<"t1", "t2", "t3", "t4">>

Catalog(name) == SubSeq(AllTables, 1, MaxTables)

Stmt(q, tbl, n1, n2) == [q |-> q, tbl |-> tbl, n1 |-> n1, n2 |-> n2]

\* an outcome of one Client / query operation
Res(err, val, sent, failed) ==
    [err |-> err, val |-> val, sent |-> sent, failed |-> failed]

\* the defensive check each operation starts with
NilConn == Res(ErrNilConn, <<>>, <<>>, FALSE)

(***************************************************************************)
(* Running statements on a handle.  stmts are issued in order until one    *)
(* fails; the f-th statement fails in the driver (f = 0: none does), and   *)
(* every statement fails on a closed handle.                               *)
(***************************************************************************)
FirstFail(hs, db, stmts, f) ==
    IF stmts = <<>> THEN 0
    ELSE IF ~IsOpen(hs, db) THEN 1
    ELSE IF f \in 1..Len(stmts) THEN f
    ELSE 0

StmtErr(hs, db) == IF IsOpen(hs, db) THEN ErrDriver ELSE ErrClosed

Run(hs, db, stmts, f) ==
    LET k == FirstFail(hs, db, stmts, f)
    IN  [sent |-> IF k = 0 THEN stmts ELSE SubSeq(stmts, 1, k),
         err |-> IF k = 0 THEN NoErr ELSE StmtErr(hs, db),
         failed |-> k # 0]

\* the tables of the database a handle is connected to
TablesOf(hs, db) == Catalog(hs[db].target)

(***************************************************************************)
(* db/connection/connection.go : ConnectToDatabase                         *)
(* openOK, pingOK, probeOK are the outcomes of sql.Open, db.Ping and the   *)
(* `SELECT 1` probe.  Returns the handle table, the returned handle and    *)
(* error, and the handle the call opened (Nil if none).                    *)
(***************************************************************************)
\* a failure path that returns without closing the handle it opened
LeakOnFailure(hs, id) == hs

\* `_ = db.Close(); return nil, err` on the two failure paths after sql.Open
CloseOnFailure(hs, id) == CloseDB(hs, id, FALSE).hs

ConnectToDatabase(hs, conn, dbType, openOK, pingOK, probeOK) ==
    LET id == Len(hs) + 1
        fresh == NewDB(conn.Name)
        opened == Append(hs, fresh)
    IN
    IF dbType = "" THEN
        [hs |-> hs, db |-> Nil, err |-> ErrEmptyType, opened |-> Nil]
    ELSE IF ToLower(dbType) \notin
                {ToLower(TypeString(MySQL)), ToLower(TypeString(PostgreSQL)),
                 ToLower(TypeString(SQLite))} THEN
        [hs |-> hs, db |-> Nil, err |-> ErrUnsupportedType, opened |-> Nil]
    ELSE IF ~openOK THEN
        [hs |-> hs, db |-> Nil, err |-> ErrDriver, opened |-> Nil]
    ELSE IF ~pingOK THEN
        [hs |-> CloseOnFailure(opened, id),
         db |-> Nil, err |-> ErrDriver, opened |-> id]
    ELSE IF ~probeOK THEN
        [hs |-> CloseOnFailure([opened EXCEPT ![id].pinged = TRUE], id),
         db |-> Nil, err |-> ErrDriver, opened |-> id]
    ELSE
        [hs |-> [opened EXCEPT ![id].pinged = TRUE, ![id].probed = TRUE],
         db |-> id, err |-> NoErr, opened |-> id]

\* db/connection/connection.go : Disconnect.  db.Close() on a nil *sql.DB
\* dereferences the nil pointer.
Disconnect(hs, db, closeFails) ==
    IF db = Nil THEN [hs |-> hs, err |-> Panic]
    ELSE CloseDB(hs, db, closeFails)

(***************************************************************************)
(* pkg/client/client.go : the Client and its operations.  A Client is      *)
(*   [Type, Name, SchemaName, NumTables, Database]                         *)
(* Each operation takes the handle table hs, the client c, its arguments   *)
(* and f, the ordinal of the statement that fails in the driver.           *)
(***************************************************************************)
\* a dialect-selected operation issuing one query: the common shape of
\* GetColumns, CountTableRows, GetTablesSize and GetTableSize
OneQuery(hs, c, f, stmt, val) ==
    LET r == Run(hs, c.Database, <<stmt>>, f)
    IN  IF r.failed THEN Res(r.err, <<>>, r.sent, TRUE)
        ELSE Res(NoErr, val, r.sent, FALSE)

GetSchemaNames(hs, c, f) ==
    IF c.Database = Nil THEN NilConn
    ELSE IF IsDialect(c.Type, MySQL) THEN
        OneQuery(hs, c, f, Stmt("MySQLShowDatabases", "", 0, 0), <<"shop", "blog">>)
    ELSE IF IsDialect(c.Type, PostgreSQL) THEN
        OneQuery(hs, c, f, Stmt("PostgreSQLShowDatabases", "", 0, 0), <<"shop", "blog">>)
    ELSE Res(NoErr, <<>>, <<>>, FALSE)

\* on a helper error GetSchemaSize returns SchemaSize{}, nil
GetSchemaSize(hs, c, name, f) ==
    IF c.Database = Nil THEN NilConn
    ELSE IF IsDialect(c.Type, MySQL) \/ IsDialect(c.Type, PostgreSQL) THEN
        LET q == IF IsDialect(c.Type, MySQL) THEN "MySQLSchemaSize"
                 ELSE "PostgreSQLSchemaSize"
            r == Run(hs, c.Database, <<Stmt(q, name, 0, 0)>>, f)
        IN  IF r.failed THEN Res(NoErr, <<>>, r.sent, TRUE)
            ELSE Res(NoErr, <<name>>, r.sent, FALSE)
    ELSE Res(NoErr, <<>>, <<>>, FALSE)

CountTableRows(hs, c, t, f) ==
    IF c.Database = Nil THEN NilConn
    ELSE IF IsDialect(c.Type, MySQL) THEN
        OneQuery(hs, c, f, Stmt("MySQLCountTableRows", t, 0, 0), <<"count">>)
    ELSE IF IsDialect(c.Type, PostgreSQL) THEN
        OneQuery(hs, c, f, Stmt("PostgreSQLCountTableRows", t, 0, 0), <<"count">>)
    ELSE IF IsDialect(c.Type, SQLite) THEN
        OneQuery(hs, c, f, Stmt("SQLiteCountTableRows", t, 0, 0), <<"count">>)
    ELSE Res(NoErr, <<>>, <<>>, FALSE)

GetTableNames(hs, c, f) ==
    IF c.Database = Nil THEN NilConn
    ELSE IF IsDialect(c.Type, MySQL) THEN
        LET r == Run(hs, c.Database,
                     <<Stmt("MySQLUse", c.SchemaName, 0, 0),
                       Stmt("MySQLShowTables", "", 0, 0)>>, f)
        IN  IF r.failed THEN Res(r.err, <<>>, r.sent, TRUE)
            ELSE Res(NoErr, TablesOf(hs, c.Database), r.sent, FALSE)
    ELSE IF IsDialect(c.Type, PostgreSQL) THEN
        OneQuery(hs, c, f, Stmt("PostgreSQLShowTables", c.SchemaName, 0, 0),
                 TablesOf(hs, c.Database))
    ELSE IF IsDialect(c.Type, SQLite) THEN
        OneQuery(hs, c, f, Stmt("SQLiteShowTables", "", 0, 0),
                 TablesOf(hs, c.Database))
    ELSE Res(NoErr, <<>>, <<>>, FALSE)

\* the columns a table is introspected to have
ColumnsOf(t) == <<"id", "name">>

GetColumns(hs, c, t, f) ==
    IF c.Database = Nil THEN NilConn
    ELSE IF IsDialect(c.Type, MySQL) THEN
        OneQuery(hs, c, f, Stmt("MySQLColumnsInfo", t, 0, 0), ColumnsOf(t))
    ELSE IF IsDialect(c.Type, PostgreSQL) THEN
        OneQuery(hs, c, f, Stmt("PostgreSQLColumnsInfo", t, 0, 0), ColumnsOf(t))
    ELSE IF IsDialect(c.Type, SQLite) THEN
        OneQuery(hs, c, f, Stmt("SQLiteColumnsInfo", t, 0, 0), ColumnsOf(t))
    ELSE Res(NoErr, <<>>, <<>>, FALSE)

\* GetColumnsData runs the same statements as GetColumns and wraps the
\* columns with the table name (ColumnData{} on an unmatched dialect)
GetColumnsData(hs, c, t, f) == GetColumns(hs, c, t, f)

GetTablesSize(hs, c, f) ==
    IF c.Database = Nil THEN NilConn
    ELSE IF IsDialect(c.Type, MySQL) THEN
        OneQuery(hs, c, f, Stmt("MySQLGetTablesSize", c.SchemaName, 0, 0), <<"sizes">>)
    ELSE IF IsDialect(c.Type, PostgreSQL) THEN
        OneQuery(hs, c, f, Stmt("PostgreSQLTableSizes", "", 0, 0), <<"sizes">>)
    ELSE IF IsDialect(c.Type, SQLite) THEN
        OneQuery(hs, c, f, Stmt("SQLiteTablesSize", "", 0, 0), <<"sizes">>)
    ELSE Res(NoErr, <<>>, <<>>, FALSE)

GetTableSize(hs, c, t, f) ==
    IF c.Database = Nil THEN NilConn
    ELSE IF IsDialect(c.Type, MySQL) THEN
        OneQuery(hs, c, f, Stmt("MySQLGetTableSize", t, 0, 0), <<"size">>)
    ELSE IF IsDialect(c.Type, PostgreSQL) THEN
        OneQuery(hs, c, f, Stmt("PostgreSQLTableSize", t, 0, 0), <<"size">>)
    ELSE IF IsDialect(c.Type, SQLite) THEN
        OneQuery(hs, c, f, Stmt("SQLiteTableSize", t, 0, 0), <<"size">>)
    ELSE Res(NoErr, <<>>, <<>>, FALSE)

\* the size the server reports for a table, in MB
SizeMB(t) == 7

\* the failing ordinal as seen after n statements have been issued
Shift(f, n) == IF f > n THEN f - n ELSE 0

\* the template buildSelectAll substitutes into ("" when no case matches)
SelectTemplate(t) ==
    IF IsDialect(t, MySQL) THEN "MySQLSelectAllWithLimit"
    ELSE IF IsDialect(t, PostgreSQL) THEN "PostgreSQLSelectAllWithLimit"
    ELSE IF IsDialect(t, SQLite) THEN "SQLiteSelectAllWithLimit"
    ELSE ""

\* an offset that takes page as 0-based
OffsetZeroBased(page, perPage) == page * perPage

\* offset = (page - 1) * perPage
Offset(page, perPage) == (page - 1) * perPage

\* a cell as the driver hands it to Scan: its Go type and its content
Cell(type, v) == [type |-> type, v |-> v]

\* the rows of a table in the order the server returns them: an integer
\* key, which the drivers surface as int64, and a text, surfaced as []byte
RawRow(i) == <<Cell("int64", i), Cell("[]byte", i)>>

Rows(n) == [i \in 1..n |-> RawRow(i)]

\* the rows of the tables of the connected database
TableRows == Rows(MaxRows)

Min(a, b) == IF a <= b THEN a ELSE b

\* the server's answer to `... LIMIT perPage OFFSET offset`: MySQL and
\* PostgreSQL reject a negative number, SQLite reads a negative LIMIT as no
\* limit and a negative OFFSET as 0; the empty statement returns no rows
ServerSelect(t, rows, perPage, offset) ==
    IF IsDialect(t, MySQL) \/ IsDialect(t, PostgreSQL)
    THEN IF perPage < 0 \/ offset < 0 THEN [ok |-> FALSE, rows |-> <<>>]
         ELSE [ok |-> TRUE,
               rows |-> SubSeq(rows, offset + 1, Min(Len(rows), offset + perPage))]
    ELSE IF IsDialect(t, SQLite)
    THEN LET o == IF offset < 0 THEN 0 ELSE offset
             last == IF perPage < 0 THEN Len(rows) ELSE Min(Len(rows), o + perPage)
         IN  [ok |-> TRUE, rows |-> SubSeq(rows, o + 1, last)]
    ELSE [ok |-> TRUE, rows |-> <<>>]

\* `b, ok := val.([]byte); if ok { v = string(b) } else { v = val }`
DecodeCell(val) == IF val.type = "[]byte" THEN Cell("string", val.v) ELSE val

\* the index of the cell row[col] ends up holding: the loop over columns
\* assigns in order, so the last column of that name wins
LastIndexOf(columns, col) ==
    CHOOSE i \in 1..Len(columns) :
        /\ columns[i] = col
        /\ \A j \in (i + 1)..Len(columns) : columns[j] # col

\* one round of `for rows.Next()`: the Row built from the scanned values
DecodeRow(columns, values) ==
    [col \in {columns[i] : i \in 1..Len(columns)} |->
        DecodeCell(values[LastIndexOf(columns, col)])]

\* a decoder whose rows all show the values buffer as the last Scan left it
getTableHelperAliased(columns, rawRows) ==
    LET results == [r \in 1..Len(rawRows) |->
                       DecodeRow(columns, rawRows[Len(rawRows)])]
    IN  [Data |-> results, N_columns |-> Len(columns), N_rows |-> Len(results)]

\* getTableHelper after the query succeeded: results, numRows, numCols
getTableHelper(columns, rawRows) ==
    LET results == [r \in 1..Len(rawRows) |-> DecodeRow(columns, rawRows[r])]
    IN  [Data |-> results, N_columns |-> Len(columns), N_rows |-> Len(results)]

\* rows is what the table holds; the Table returned carries Data, Columns,
\* N_columns, N_rows and Size (0 when GetTableSize is skipped)
GetTable(hs, c, t, rows, page, perPage, f) ==
    IF c.Database = Nil THEN NilConn
    ELSE
    LET offset == Offset(page, perPage)
        cols == GetColumns(hs, c, t, f)
    IN  IF cols.err # NoErr THEN cols
        ELSE
        LET n1 == Len(cols.sent)
            sel == Run(hs, c.Database,
                       <<Stmt(SelectTemplate(c.Type), t, perPage, offset)>>,
                       Shift(f, n1))
            answer == ServerSelect(c.Type, rows, perPage, offset)
            tableData == getTableHelper(cols.val, answer.rows)
            table == [Name |-> t, Data |-> tableData.Data, Columns |-> cols.val,
                      N_columns |-> Len(cols.val),
                      N_rows |-> Len(tableData.Data), Size |-> 0]
        IN  IF sel.failed THEN Res(sel.err, <<>>, cols.sent \o sel.sent, TRUE)
            ELSE IF ~answer.ok THEN Res(ErrDriver, <<>>, cols.sent \o sel.sent, TRUE)
            ELSE IF IsDialect(c.Type, SQLite)
            THEN Res(NoErr, table, cols.sent \o sel.sent, FALSE)
            ELSE
            LET size == GetTableSize(hs, c, t, Shift(f, n1 + 1))
                sent == cols.sent \o sel.sent \o size.sent
            IN  IF size.err # NoErr THEN Res(size.err, <<>>, sent, size.failed)
                ELSE Res(NoErr, [table EXCEPT !.Size = SizeMB(t)], sent, FALSE)

ExportToJson(hs, c, t, f) ==
    IF c.Database = Nil THEN NilConn
    ELSE OneQuery(hs, c, f, Stmt("SQLSelectAll", t, 0, 0), <<t>>)

\* ExportToCSV returns builder.String() taken before the deferred
\* writer.Flush(); the tables of this model are far smaller than the
\* writer's buffer, so the returned text is empty.
ExportToCSV(hs, c, t, f) ==
    IF c.Database = Nil THEN NilConn
    ELSE OneQuery(hs, c, f, Stmt("SQLSelectAll", t, 0, 0), <<>>)

\* one SHOW CREATE TABLE per table; on an error the partial text is returned
ShowCreateTableMySQL(hs, c, tables, f) ==
    IF c.Database = Nil THEN NilConn
    ELSE
    LET r == Run(hs, c.Database,
                 [i \in 1..Len(tables) |-> Stmt("MySQLShowCreateTable", tables[i], 0, 0)],
                 f)
    IN  IF r.failed
        THEN Res(r.err, SubSeq(tables, 1, Len(r.sent) - 1), r.sent, TRUE)
        ELSE Res(NoErr, tables, r.sent, FALSE)

\* create the function, look every table up, and drop the function in a
\* deferred call whose error is discarded.  The server decides the DROP: run
\* alone, the function the call created is there to drop.
ShowCreateTablePostgreSQL(hs, c, tables, f) ==
    IF c.Database = Nil THEN NilConn
    ELSE
    LET create == Run(hs, c.Database,
                      <<Stmt("PostgreSQLShowCreateFunction", "", 0, 0)>>, f)
    IN  IF create.failed THEN Res(create.err, <<>>, create.sent, TRUE)
        ELSE
        LET r == Run(hs, c.Database,
                     [i \in 1..Len(tables) |-> Stmt("PostgreSQLShowCreate", tables[i], 0, 0)],
                     Shift(f, 1))
            sent == create.sent \o r.sent
                    \o <<Stmt("PostgreSQLDropShowCreateFunction", "", 0, 0)>>
        IN  IF r.failed
            THEN Res(r.err, SubSeq(tables, 1, Len(r.sent) - 1), sent, TRUE)
            ELSE Res(NoErr, tables, sent, FALSE)

\* ShowCreateTable returns "", nil when the dialect's export fails
ShowCreateTable(hs, c, f) ==
    LET names == GetTableNames(hs, c, f)
    IN  IF names.err # NoErr THEN Res(names.err, <<>>, names.sent, names.failed)
        ELSE IF IsDialect(c.Type, MySQL) \/ IsDialect(c.Type, PostgreSQL) THEN
            LET g == Shift(f, Len(names.sent))
                r == IF IsDialect(c.Type, MySQL)
                     THEN ShowCreateTableMySQL(hs, c, names.val, g)
                     ELSE ShowCreateTablePostgreSQL(hs, c, names.val, g)
                sent == names.sent \o r.sent
            IN  IF r.err # NoErr THEN Res(NoErr, <<>>, sent, r.failed)
                ELSE Res(NoErr, r.val, sent, FALSE)
        ELSE Res(NoErr, <<>>, names.sent, FALSE)

ErrFile == "file error"

\* ShowCreateTableFile returns 0, nil when GetTableNames fails, and uses the
\* MySQL statement whatever the dialect
ShowCreateTableFile(hs, c, fileOK, f) ==
    IF c.Database = Nil THEN NilConn
    ELSE
    LET names == GetTableNames(hs, c, f)
    IN  IF names.err # NoErr THEN Res(NoErr, <<>>, names.sent, names.failed)
        ELSE IF ~fileOK THEN Res(ErrFile, <<>>, names.sent, FALSE)
        ELSE
        LET tables == names.val
            r == Run(hs, c.Database,
                     [i \in 1..Len(tables) |-> Stmt("MySQLShowCreateTable", tables[i], 0, 0)],
                     Shift(f, Len(names.sent)))
        IN  IF r.failed THEN Res(r.err, <<>>, names.sent \o r.sent, TRUE)
            ELSE Res(NoErr, tables, names.sent \o r.sent, FALSE)

(***************************************************************************)
(* Text.  A string is the sequence of its characters; a format is a        *)
(* sequence whose elements are characters and the verbs "%s" and "%d".     *)
(***************************************************************************)
\* the two quoting characters; the grave accent is written by its code point
Backtick == "U+0060"

DoubleQuote == "\""

Digits == <<"0", "1", "2", "3", "4", "5", "6", "7", "8", "9">>

RECURSIVE Itoa(_)
\* the decimal text of an int, as the verb %d writes it
Itoa(n) ==
    IF n < 0 THEN <<"-">> \o Itoa(0 - n)
    ELSE IF n < 10 THEN <<Digits[n + 1]>>
    ELSE Itoa(n \div 10) \o <<Digits[(n % 10) + 1]>>

\* what fmt writes for a verb that has no operand left
Missing(verb) ==
    <<"%", "!", IF verb = "%s" THEN "s" ELSE "d",
      "(", "M", "I", "S", "S", "I", "N", "G", ")">>

RECURSIVE Sprintf(_, _)
\* fmt.Sprintf for the verbs the templates use; a string operand goes to
\* %s and an int operand to %d at every call site
Sprintf(format, args) ==
    IF format = <<>> THEN <<>>
    ELSE LET h == Head(format)
         IN  IF h \in {"%s", "%d"}
             THEN IF args = <<>>
                  THEN Missing(h) \o Sprintf(Tail(format), <<>>)
                  ELSE (IF h = "%d" THEN Itoa(Head(args)) ELSE Head(args))
                       \o Sprintf(Tail(format), Tail(args))
             ELSE <<h>> \o Sprintf(Tail(format), args)

UpperCase == <<"A", "B", "C", "D", "E", "F", "G", "H", "I", "J", "K", "L", "M",
               "N", "O", "P", "Q", "R", "S", "T", "U", "V", "W", "X", "Y", "Z">>

LowerCase == <<"a", "b", "c", "d", "e", "f", "g", "h", "i", "j", "k", "l", "m",
               "n", "o", "p", "q", "r", "s", "t", "u", "v", "w", "x", "y", "z">>

\* strings.ToLower on a text
ToLowerText(text) ==
    [i \in 1..Len(text) |->
        IF \E k \in 1..26 : UpperCase[k] = text[i]
        THEN LowerCase[CHOOSE k \in 1..26 : UpperCase[k] = text[i]]
        ELSE text[i]]

\* strings.Contains
Contains(text, substr) ==
    \E i \in 0..(Len(text) - Len(substr)) :
        SubSeq(text, i + 1, i + Len(substr)) = substr

(***************************************************************************)
(* pkg/query : UpdateRow and ExecuteQuery                                  *)
(***************************************************************************)
\* the probe getColumnDataType builds ("" when no case matches)
DataTypeTemplate(t) ==
    IF IsDialect(t, MySQL) THEN "MySQLGetColumnDataType"
    ELSE IF IsDialect(t, PostgreSQL) THEN "PostgreSQLGetColumnDataType"
    ELSE ""

\* var stringDataTypes = []string{"char", "text", "date", "time", "year"}
stringDataTypes ==
    <<<<"c", "h", "a", "r">>, <<"t", "e", "x", "t">>, <<"d", "a", "t", "e">>,
      <<"t", "i", "m", "e">>, <<"y", "e", "a", "r">>>>

\* a wrapValue that quotes every value
wrapAlways(dataType, value) == Sprintf(<<"'", "%s", "'">>, <<value>>)

wrapValue(dataType, value) ==
    LET lowerCase == ToLowerText(dataType)
    IN  IF \E k \in 1..Len(stringDataTypes) : Contains(lowerCase, stringDataTypes[k])
        THEN Sprintf(<<"'", "%s", "'">>, <<value>>)
        ELSE value

wrapPrimaryKey(dataType, priKey) ==
    LET lowerCase == ToLowerText(dataType)
    IN  IF \E k \in 1..Len(stringDataTypes) : Contains(lowerCase, stringDataTypes[k])
        THEN Sprintf(<<"'", "%s", "'">>, <<priKey>>)
        ELSE priKey

\* `UPDATE %s SET %s = %s WHERE %s = %s`
SQLUpdateRow ==
    <<"U", "P", "D", "A", "T", "E", " ", "%s", " ", "S", "E", "T", " ", "%s",
      " ", "=", " ", "%s", " ", "W", "H", "E", "R", "E", " ", "%s",
      " ", "=", " ", "%s">>

\* the arguments of an update request
UpdateArgs(table, parentCol, newVal, priKeyVal, priKeyCol) ==
    [table |-> table, parentCol |-> parentCol, newVal |-> newVal,
     priKeyVal |-> priKeyVal, priKeyCol |-> priKeyCol]

\* the update of the facade's requests: t.c = 5 where id = 7
SomeUpdate == UpdateArgs(<<"t">>, <<"c">>, <<"5">>, <<"7">>, <<"i", "d">>)

\* the data types the server reports for the columns of the facade's table
VarcharType == <<"V", "A", "R", "C", "H", "A", "R">>

IntType == <<"i", "n", "t">>

\* a holds the arguments; colType and keyType are the data types the two
\* probes find.  A dialect without a probe template sends the empty
\* statement, which returns no row, and Scan fails
\* an UpdateRow that goes on to the UPDATE whatever the probes returned
UpdateRowIgnoringProbes(hs, c, a, colType, keyType, f) ==
    IF c.Database = Nil THEN NilConn
    ELSE
    LET stmts == <<Stmt(DataTypeTemplate(c.Type), "parentCol", 0, 0),
                   Stmt(DataTypeTemplate(c.Type), "priKeyCol", 0, 0),
                   Stmt("SQLUpdateRow", "t1", 0, 0)>>
        r == Run(hs, c.Database, <<stmts[3]>>, IF f = 3 THEN 1 ELSE 0)
    IN  IF r.failed THEN Res(r.err, <<>>, stmts, TRUE)
        ELSE Res(NoErr, [query |-> <<>>, AffectedRows |-> 1], stmts, FALSE)

UpdateRow(hs, c, a, colType, keyType, f) ==
    IF c.Database = Nil THEN NilConn
    ELSE
    LET wrappedValue == wrapValue(colType, a.newVal)
        wrappedPrimaryKey == wrapPrimaryKey(keyType, a.priKeyVal)
        query == Sprintf(SQLUpdateRow,
                         <<a.table, a.parentCol, wrappedValue,
                           a.priKeyCol, wrappedPrimaryKey>>)
        r == Run(hs, c.Database,
                 <<Stmt(DataTypeTemplate(c.Type), "parentCol", 0, 0),
                   Stmt(DataTypeTemplate(c.Type), "priKeyCol", 0, 0),
                   Stmt("SQLUpdateRow", "t1", 0, 0)>>,
                 IF DataTypeTemplate(c.Type) = "" THEN 1 ELSE f)
    IN  IF r.failed THEN Res(r.err, <<>>, r.sent, TRUE)
        ELSE Res(NoErr, [query |-> query, AffectedRows |-> 1], r.sent, FALSE)

ExecuteQuery(hs, c, f) ==
    IF c.Database = Nil THEN NilConn
    ELSE IF IsDialect(c.Type, MySQL) \/ IsDialect(c.Type, PostgreSQL) THEN
        LET stmts == IF IsDialect(c.Type, MySQL)
                     THEN <<Stmt("MySQLUse", c.SchemaName, 0, 0), Stmt("q.SQLQuery", "", 0, 0)>>
                     ELSE <<Stmt("q.SQLQuery", "", 0, 0)>>
            r == Run(hs, c.Database, stmts, f)
        IN  IF r.failed THEN Res(r.err, <<>>, r.sent, TRUE)
            ELSE Res(NoErr, <<"result">>, r.sent, FALSE)
    ELSE Res(NoErr, <<>>, <<>>, FALSE)

(***************************************************************************)
(* The operations a caller may invoke on the shared client.                *)
(***************************************************************************)
Ops == {"GetSchemaNames", "GetSchemaSize", "CountTableRows", "GetTableNames",
        "GetColumns", "GetTable", "GetTablesSize", "GetTableSize",
        "ExportToJson", "ExportToCSV", "ShowCreateTable", "ShowCreateTableFile",
        "UpdateRow", "ExecuteQuery"}

Invoke(op, hs, c, t, fileOK, f) ==
    CASE op = "GetSchemaNames" -> GetSchemaNames(hs, c, f)
      [] op = "GetSchemaSize" -> GetSchemaSize(hs, c, c.Name, f)
      [] op = "CountTableRows" -> CountTableRows(hs, c, t, f)
      [] op = "GetTableNames" -> GetTableNames(hs, c, f)
      [] op = "GetColumns" -> GetColumns(hs, c, t, f)
      [] op = "GetTable" -> GetTable(hs, c, t, TableRows, 1, 1, f)
      [] op = "GetTablesSize" -> GetTablesSize(hs, c, f)
      [] op = "GetTableSize" -> GetTableSize(hs, c, t, f)
      [] op = "ExportToJson" -> ExportToJson(hs, c, t, f)
      [] op = "ExportToCSV" -> ExportToCSV(hs, c, t, f)
      [] op = "ShowCreateTable" -> ShowCreateTable(hs, c, f)
      [] op = "ShowCreateTableFile" -> ShowCreateTableFile(hs, c, fileOK, f)
      [] op = "UpdateRow" -> UpdateRow(hs, c, SomeUpdate, VarcharType, IntType, f)
      [] op = "ExecuteQuery" -> ExecuteQuery(hs, c, f)

VARIABLES
    client,     \* Handler.client: the shared *Client
    handles,    \* every *sql.DB opened so far
    gor,        \* the request goroutines: position and locals
    resp,       \* the last response a handler produced
    ctd,        \* the last return of ConnectToDatabase
    session,    \* outcome of the last Connect / Disconnect request
    ex,         \* SpecExport: the ShowCreateTablePostgreSQL calls
    fnOwner,    \* SpecExport: who created public.show_create_table (0: absent)
    call,       \* SpecSelect: the arguments of the last pure call
    ret,        \* SpecSelect: its result
    file,       \* connection_history.json: absent, or its content
    written     \* the records WriteToFile has stored, in call order

facadeVars == <<client, handles, gor, resp, ctd, session>>
exportVars == <<ex, fnOwner>>
pureVars == <<call, ret>>
historyVars == <<file, written>>
vars == <<client, handles, gor, resp, ctd, session, ex, fnOwner, call, ret,
          file, written>>

\* os.Stat(fileName) reports that the file does not exist
NoFile == <<[tok |-> "ErrNotExist", v |-> ""]>>

(***************************************************************************)
(* pkg/handler/handler.go : the handlers.  All of them act on h.client,    *)
(* the one *Client the Handler holds.                                      *)
(***************************************************************************)
Gors == {1, 2}

\* &_client.Client{}: the client NewHandler installs
EmptyClient ==
    [Type |-> ZeroType, Name |-> "", SchemaName |-> "", NumTables |-> 0,
     Database |-> Nil]

createClient(conn) ==
    [Type |-> conn.Type, Name |-> conn.Name, SchemaName |-> "", NumTables |-> 0,
     Database |-> Nil]

setSchemaName(c) ==
    IF ToLower(TypeString(c.Type)) = ToLower(TypeString(MySQL))
    THEN [c EXCEPT !.SchemaName = c.Name]
    ELSE IF ToLower(TypeString(c.Type)) = ToLower(TypeString(PostgreSQL))
    THEN [c EXCEPT !.SchemaName = "public"]
    ELSE c

\* getColumnsDataForTables: GetColumnsData for each table, stopping at the
\* first error
getColumnsDataForTables(hs, c, tableNames, f) ==
    LET r == Run(hs, c.Database,
                 [i \in 1..Len(tableNames) |->
                     GetColumnsData(hs, c, tableNames[i], 0).sent[1]], f)
    IN  IF r.failed THEN Res(r.err, <<>>, r.sent, TRUE)
        ELSE Res(NoErr, tableNames, r.sent, FALSE)

IdleGor == [pc |-> "idle", conn |-> [Type |-> ZeroType, Name |-> ""]]

NoResp == [g |-> 0, op |-> "none", err |-> NoErr, val |-> <<>>, sent |-> <<>>,
           failed |-> FALSE, ctype |-> ZeroType, hadDb |-> FALSE, wasClosed |-> FALSE]

\* what a handler answers: the operation, its outcome, and the client it ran on
Answer(g, op, r, c) ==
    [g |-> g, op |-> op, err |-> r.err, val |-> r.val, sent |-> r.sent,
     failed |-> r.failed, ctype |-> c.Type, hadDb |-> c.Database # Nil,
     wasClosed |-> FALSE]

NoCtd == [db |-> Nil, err |-> NoErr, opened |-> Nil, calls |-> 0, dbType |-> ""]

\* the statement ordinals at which the driver may fail (0: nowhere)
FailAt == 0..(MaxTables + 2)

\* f names a statement the operation gets to issue
Reaches(f, r) == f <= Len(r.sent)

\* the page and perPage values strconv.Atoi may hand the handler
PageArgs == (0 - 1)..MaxPage

\* no call of buildSelectAll made yet
NoArgs == [cols |-> <<>>, DbType |-> "", schema |-> <<>>, table |-> <<>>,
           perPage |-> 0, offset |-> 0, done |-> FALSE]

Init ==
    /\ client = EmptyClient
    /\ handles = <<>>
    /\ gor = [g \in Gors |-> IdleGor]
    /\ resp = NoResp
    /\ ctd = NoCtd
    /\ session = "none"
    /\ ex = <<>>
    /\ fnOwner = 0
    /\ file = NoFile
    /\ written = <<>>
    /\ call = NoArgs
    /\ ret = <<>>

\* ConnectHandler: the request body does not decode
ConnectBadBody(g) ==
    /\ gor[g].pc = "idle"
    /\ resp' = Answer(g, "Connect", Res(ErrBadBody, <<>>, <<>>, FALSE), client)
    /\ session' = "connectFailed"
    /\ UNCHANGED <<client, handles, gor, ctd, exportVars, pureVars, historyVars>>

\* ConnectHandler: conn is parsed; client = createClient(conn); h.client = client
ConnectBegin(g, typeName, name) ==
    /\ gor[g].pc = "idle"
    /\ Len(handles) + Cardinality({h \in Gors : gor[h].pc = "connecting"}) < MaxHandles
    /\ LET conn == [Type |-> parseDbType(typeName), Name |-> name]
       IN  /\ client' = createClient(conn)
           /\ gor' = [gor EXCEPT ![g] = [pc |-> "connecting", conn |-> conn]]
    /\ UNCHANGED <<handles, resp, ctd, session, exportVars, pureVars, historyVars>>

\* ConnectHandler: db, err = ConnectToDatabase(conn, conn.Type.String());
\* on success h.client.Database = db
ConnectOpen(g, openOK, pingOK, probeOK) ==
    /\ gor[g].pc = "connecting"
    /\ LET conn == gor[g].conn
           r == ConnectToDatabase(handles, conn, TypeString(conn.Type),
                                  openOK, pingOK, probeOK)
       IN  /\ handles' = r.hs
           /\ ctd' = [db |-> r.db, err |-> r.err, opened |-> r.opened,
                      calls |-> 1, dbType |-> TypeString(conn.Type)]
           /\ IF r.err # NoErr
              THEN /\ resp' = Answer(g, "Connect", Res(r.err, <<>>, <<>>, FALSE), client)
                   /\ session' = "connectFailed"
                   /\ gor' = [gor EXCEPT ![g] = IdleGor]
                   /\ UNCHANGED client
              ELSE /\ client' = [client EXCEPT !.Database = r.db]
                   /\ gor' = [gor EXCEPT ![g].pc = "opened"]
                   /\ UNCHANGED <<resp, session>>
    /\ UNCHANGED <<exportVars, pureVars, historyVars>>

\* ConnectHandler: setSchemaName(h.client) unless the dialect is SQLite
ConnectSchema(g) ==
    /\ gor[g].pc = "opened"
    /\ client' = IF ToLower(TypeString(client.Type)) # ToLower(TypeString(SQLite))
                 THEN setSchemaName(client) ELSE client
    /\ gor' = [gor EXCEPT ![g].pc = "named"]
    /\ UNCHANGED <<handles, resp, ctd, session, exportVars, pureVars, historyVars>>

\* ConnectHandler: GetTableNames, getColumnsDataForTables, NumTables, answer
ConnectIntrospect(g, f) ==
    /\ gor[g].pc = "named"
    /\ LET c == client
           names == GetTableNames(handles, c, f)
           cols == getColumnsDataForTables(handles, c, names.val,
                                           Shift(f, Len(names.sent)))
           sent == names.sent \o cols.sent
       IN  IF names.err # NoErr
           THEN /\ resp' = Answer(g, "Connect", names, c)
                /\ session' = "connectFailed"
                /\ UNCHANGED client
           ELSE IF cols.err # NoErr
           THEN /\ Reaches(f, Res(NoErr, <<>>, sent, TRUE))
                /\ resp' = Answer(g, "Connect", Res(cols.err, <<>>, sent, TRUE), c)
                /\ session' = "connectFailed"
                /\ UNCHANGED client
           ELSE /\ f = 0
                /\ client' = [client EXCEPT !.NumTables = Len(names.val)]
                /\ resp' = Answer(g, "Connect", Res(NoErr, names.val, sent, FALSE), c)
                /\ session' = "connected"
    /\ gor' = [gor EXCEPT ![g] = IdleGor]
    /\ UNCHANGED <<handles, ctd, exportVars, pureVars, historyVars>>

\* DbDisconnect: connection.Disconnect(h.client.Database); h.client is left
\* as it is
DbDisconnect(g, closeFails) ==
    /\ gor[g].pc = "idle"
    /\ LET r == Disconnect(handles, client.Database, closeFails)
       IN  /\ handles' = r.hs
           /\ resp' = [Answer(g, "Disconnect", Res(r.err, <<>>, <<>>, FALSE), client)
                         EXCEPT !.wasClosed = client.Database # Nil
                                              /\ ~IsOpen(handles, client.Database)]
           /\ session' = IF r.err = NoErr THEN "disconnected" ELSE "disconnectFailed"
    /\ UNCHANGED <<client, gor, ctd, exportVars, pureVars, historyVars>>

\* the handlers that call one operation on h.client and answer its outcome
DataOp(g, op, fileOK, f) ==
    /\ gor[g].pc = "idle"
    /\ fileOK \/ op = "ShowCreateTableFile"
    /\ \E r \in {Invoke(op, handles, client, "t1", fileOK, f)} :
           /\ Reaches(f, r)
           /\ resp' = Answer(g, op, r, client)
    /\ UNCHANGED <<client, handles, gor, ctd, session, exportVars, pureVars, historyVars>>

\* rounding that drops the fraction
RoundDown(a, b) == a \div b

\* math.Round of the quotient a / b of two non-negative ints, b > 0: the
\* nearest integer, a half going away from zero
Round(a, b) == (2 * a + b) \div (2 * b)

\* totalPages = float64(rows) / float64(perPageInt); below 1 it becomes 1,
\* otherwise math.Round of it.  Dividing by 0 gives NaN for 0 rows and +Inf
\* otherwise, and neither is below 1 nor changed by math.Round; the
\* quotient is exact enough in float64 for every count below 2^52
\* the rounded quotient without the replacement of a quotient below 1 by 1
TotalPagesUnclamped(rows, perPageInt) ==
    IF perPageInt = 0 THEN (IF rows = 0 THEN "NaN" ELSE "+Inf")
    ELSE IF perPageInt < 0 THEN 1
    ELSE Round(rows, perPageInt)

TotalPages(rows, perPageInt) ==
    IF perPageInt = 0 THEN (IF rows = 0 THEN "NaN" ELSE "+Inf")
    ELSE IF perPageInt < 0 THEN 1
    ELSE IF rows < perPageInt THEN 1
    ELSE Round(rows, perPageInt)

\* TableDataHandler after the two strconv.Atoi calls: CountTableRows,
\* totalPages, GetTable, and the response map
TableData(hs, c, t, tableRows, pageInt, perPageInt, f) ==
    LET count == CountTableRows(hs, c, t, f)
        rows == IF count.val = <<>> THEN 0 ELSE Len(tableRows)
        tbl == GetTable(hs, c, t, tableRows, pageInt, perPageInt,
                        Shift(f, Len(count.sent)))
    IN  IF count.err # NoErr THEN count
        ELSE IF tbl.err # NoErr
        THEN Res(tbl.err, <<>>, count.sent \o tbl.sent, tbl.failed)
        ELSE Res(NoErr,
                 [table |-> tbl.val, total_rows |-> rows,
                  total_pages |-> TotalPages(rows, perPageInt)],
                 count.sent \o tbl.sent, FALSE)

\* TableDataHandler: page and perPage as parsed, then the rest of the handler
TableDataHandler(g, page, perPage, f) ==
    /\ gor[g].pc = "idle"
    /\ \E r \in {TableData(handles, client, "t1", TableRows, page, perPage, f)} :
           /\ Reaches(f, r)
           /\ resp' = Answer(g, "TableData", r, client)
    /\ UNCHANGED <<client, handles, gor, ctd, session, exportVars, pureVars, historyVars>>

\* a connect request, step by step
Connecting(g, fails) ==
    \/ ConnectBadBody(g)
    \/ \E typeName \in TypeNames, name \in DbNames : ConnectBegin(g, typeName, name)
    \/ \E openOK, pingOK, probeOK \in BOOLEAN : ConnectOpen(g, openOK, pingOK, probeOK)
    \/ ConnectSchema(g)
    \/ \E f \in fails : ConnectIntrospect(g, f)

\* every other request: an operation of ops or a table-data request, with
\* the driver failing at an ordinal of fails and page, perPage drawn from
\* pages
Serving(g, ops, fails, pages) ==
    \/ \E closeFails \in BOOLEAN : DbDisconnect(g, closeFails)
    \/ \E op \in ops, fileOK \in BOOLEAN, f \in fails : DataOp(g, op, fileOK, f)
    \/ \E page, perPage \in pages, f \in fails : TableDataHandler(g, page, perPage, f)

\* requests served one at a time
Next == Connecting(1, FailAt) \/ Serving(1, Ops, FailAt, PageArgs)

Spec == Init /\ [][Next]_vars

\* two requests in flight on the shared client.  The interleavings are the
\* subject here: the driver fails at the open, the ping, the probe or the
\* first statement of a connect request and nowhere else, and the other
\* requests, which take one step, are all served by goroutine 1
ConcOps == {"GetSchemaNames", "GetTableNames", "ShowCreateTable", "ExecuteQuery"}

NextConc ==
    (\E g \in Gors : Connecting(g, {0, 1})) \/ Serving(1, ConcOps, {0}, {1})

SpecConc == Init /\ [][NextConc]_vars

(***************************************************************************)
(* pkg/client/client.go : ShowCreateTablePostgreSQL statement by           *)
(* statement, for two ShowCreateTable calls running on one connected       *)
(* PostgreSQL client.  public.show_create_table lives in the database and  *)
(* is shared by the calls: CREATE OR REPLACE puts it there, the lookup     *)
(* needs it, DROP FUNCTION (without IF EXISTS) removes it or fails.        *)
(***************************************************************************)
Callers == {1, 2}

\* a client ConnectHandler has connected to a PostgreSQL database
ConnectedPostgres ==
    [Type |-> PostgreSQL, Name |-> "shop", SchemaName |-> "public",
     NumTables |-> MaxTables, Database |-> 1]

ConnectedHandles ==
    <<[NewDB("shop") EXCEPT !.pinged = TRUE, !.probed = TRUE]>>

\* the table lists a call may be handed
TableLists == {SubSeq(AllTables, 1, n) : n \in 0..MaxTables}

NoCall == [pc |-> "idle", tables |-> <<>>, i |-> 0, builder |-> <<>>,
           err |-> NoErr, createFails |-> FALSE, failAt |-> 0]

InitExport ==
    /\ client = ConnectedPostgres
    /\ handles = ConnectedHandles
    /\ gor = [g \in Gors |-> IdleGor]
    /\ resp = NoResp
    /\ ctd = NoCtd
    /\ session = "connected"
    /\ ex = [p \in Callers |-> NoCall]
    /\ fnOwner = 0
    /\ file = NoFile
    /\ written = <<>>
    /\ call = NoArgs
    /\ ret = <<>>

\* a return after the loop that runs no deferred call on the way out
ReturnSkippingDrop == "returned"

\* a return placed after the defer statement runs the deferred DROP
\* FUNCTION on the way out
ReturnAfterDefer == "drop"

\* entry: the nil check; createFails and failAt are what the driver will do
\* to this call's CREATE and to its failAt-th lookup
ExportCall(p, tables, createFails, failAt) ==
    /\ ex[p].pc \in {"idle", "returned"}
    /\ failAt <= Len(tables)
    /\ createFails => failAt = 0
    /\ ex' = [ex EXCEPT ![p] =
                IF client.Database = Nil
                THEN [NoCall EXCEPT !.pc = "returned", !.err = ErrNilConn,
                                    !.tables = tables]
                ELSE [NoCall EXCEPT !.pc = "create", !.tables = tables,
                                    !.createFails = createFails,
                                    !.failAt = failAt]]
    /\ UNCHANGED <<fnOwner, facadeVars, pureVars, historyVars>>

\* c.Database.Exec(PostgreSQLShowCreateFunction)
ExportCreate(p) ==
    /\ ex[p].pc = "create"
    /\ IF ex[p].createFails
       THEN /\ ex' = [ex EXCEPT ![p].pc = "returned", ![p].err = ErrDriver]
            /\ UNCHANGED fnOwner
       ELSE /\ ex' = [ex EXCEPT ![p].pc = "loop", ![p].i = 1]
            /\ fnOwner' = p
    /\ UNCHANGED <<facadeVars, pureVars, historyVars>>

\* one round of `for _, t := range tables`: the lookup through
\* public.show_create_table and the three builder.WriteString calls
ExportLookup(p) ==
    /\ ex[p].pc = "loop"
    /\ LET e == ex[p]
       IN  IF e.i > Len(e.tables)
           THEN ex' = [ex EXCEPT ![p].pc = ReturnAfterDefer]
           ELSE IF fnOwner = 0 \/ e.failAt = e.i
           THEN ex' = [ex EXCEPT ![p].pc = ReturnAfterDefer, ![p].err = ErrDriver]
           ELSE ex' = [ex EXCEPT ![p].builder = Append(e.builder, e.tables[e.i]),
                                 ![p].i = e.i + 1]
    /\ UNCHANGED <<fnOwner, facadeVars, pureVars, historyVars>>

\* the deferred c.Database.Exec(PostgreSQLDropShowCreateFunction); dropErr
\* (the function is not there) is discarded
ExportDrop(p) ==
    /\ ex[p].pc = "drop"
    /\ fnOwner' = 0
    /\ ex' = [ex EXCEPT ![p].pc = "returned"]
    /\ UNCHANGED <<facadeVars, pureVars, historyVars>>

\* what ShowCreateTable makes of the (string, error) it gets back
ExportResult(e) ==
    IF e.err # NoErr THEN [text |-> <<>>, err |-> NoErr]
    ELSE [text |-> e.builder, err |-> NoErr]

\* the same call with nothing else running: the sequential operator
ExportAlone(e) ==
    LET f == IF e.createFails THEN 1
             ELSE IF e.failAt = 0 THEN 0 ELSE e.failAt + 1
        r == ShowCreateTablePostgreSQL(ConnectedHandles, ConnectedPostgres,
                                       e.tables, f)
    IN  IF r.err # NoErr THEN [text |-> <<>>, err |-> NoErr]
        ELSE [text |-> r.val, err |-> NoErr]

NextExport ==
    \E p \in Callers :
        \/ \E tables \in TableLists, createFails \in BOOLEAN, failAt \in 0..MaxTables :
               ExportCall(p, tables, createFails, failAt)
        \/ ExportCreate(p)
        \/ ExportLookup(p)
        \/ ExportDrop(p)

SpecExport == InitExport /\ [][NextExport]_vars

C7_ConcurrentExportsComplete ==
    \A p \in Callers :
        ex[p].pc = "returned" => ExportResult(ex[p]) = ExportAlone(ex[p])

(***************************************************************************)
(* pkg/client/client.go : buildSelectAll, on text.                         *)
(***************************************************************************)
\* `SELECT %s FROM %s.%s LIMIT %d OFFSET %d`
MySQLSelectAllWithLimit ==
    <<"S", "E", "L", "E", "C", "T", " ", "%s", " ", "F", "R", "O", "M", " ",
      "%s", ".", "%s", " ", "L", "I", "M", "I", "T", " ", "%d",
      " ", "O", "F", "F", "S", "E", "T", " ", "%d">>

PostgreSQLSelectAllWithLimit ==
    <<"S", "E", "L", "E", "C", "T", " ", "%s", " ", "F", "R", "O", "M", " ",
      "%s", ".", "%s", " ", "L", "I", "M", "I", "T", " ", "%d",
      " ", "O", "F", "F", "S", "E", "T", " ", "%d">>

\* the SQLite template: the same statement for the four operands
\* buildSelectAll hands it (column list, table, perPage, offset)
SQLiteSelectAllWithLimit ==
    <<"S", "E", "L", "E", "C", "T", " ", "%s", " ", "F", "R", "O", "M", " ",
      "%s", " ", "L", "I", "M", "I", "T", " ", "%d",
      " ", "O", "F", "F", "S", "E", "T", " ", "%d">>

\* every dialect's identifier wrapped in backticks
QuoteFieldBackticks(DbType, field) == Sprintf(<<Backtick, "%s", Backtick>>, <<field>>)

\* the switch inside the loop: one identifier of the column list
QuoteField(DbType, field) ==
    IF ToLower(DbType) = ToLower(TypeString(MySQL))
    THEN Sprintf(<<Backtick, "%s", Backtick>>, <<field>>)
    ELSE IF ToLower(DbType) = ToLower(TypeString(PostgreSQL))
    THEN Sprintf(<<DoubleQuote, "%s", DoubleQuote>>, <<field>>)
    ELSE field

RECURSIVE ColumnList(_, _, _)
\* columnList after the first n rounds of `for i, columnName := range cols`
ColumnList(cols, DbType, n) ==
    IF n = 0 THEN <<>>
    ELSE ColumnList(cols, DbType, n - 1)
         \o (IF n - 1 > 0 THEN <<",", " ">> ELSE <<>>)
         \o QuoteField(DbType, cols[n].Field)

buildSelectAll(cols, DbType, schema, table, perPage, offset) ==
    LET columnList == ColumnList(cols, DbType, Len(cols))
    IN  IF ToLower(DbType) = ToLower(TypeString(MySQL))
        THEN Sprintf(MySQLSelectAllWithLimit,
                     <<columnList, schema, table, perPage, offset>>)
        ELSE IF ToLower(DbType) = ToLower(TypeString(PostgreSQL))
        THEN Sprintf(PostgreSQLSelectAllWithLimit,
                     <<columnList, schema, table, perPage, offset>>)
        ELSE IF ToLower(DbType) = ToLower(TypeString(SQLite))
        THEN Sprintf(SQLiteSelectAllWithLimit,
                     <<columnList, table, perPage, offset>>)
        ELSE <<>>

\* the inputs of the calls: column names (one of them with a space), column
\* lists of up to MaxCols columns, and ints of one to three digits
Fields == {<<"i", "d">>, <<"a", " ", "b">>}

RECURSIVE ColumnLists(_)
ColumnLists(n) ==
    IF n = 0 THEN {<<>>}
    ELSE ColumnLists(n - 1)
         \cup {Append(cs, [Field |-> fd]) :
                  cs \in {c \in ColumnLists(n - 1) : Len(c) = n - 1}, fd \in Fields}

DbTypeStrings == {TypeString(t) : t \in {MySQL, PostgreSQL, SQLite, Unsupported}}

SchemaTexts == {<<>>, <<"s">>}

TableTexts == {<<"t">>}

SelectInts == {0 - 1, 0, 7, 50, 100}

InitSelect ==
    /\ client = EmptyClient
    /\ handles = <<>>
    /\ gor = [g \in Gors |-> IdleGor]
    /\ resp = NoResp
    /\ ctd = NoCtd
    /\ session = "none"
    /\ ex = <<>>
    /\ fnOwner = 0
    /\ file = NoFile
    /\ written = <<>>
    /\ call \in [cols : ColumnLists(MaxCols), DbType : DbTypeStrings,
                  schema : SchemaTexts, table : TableTexts,
                  perPage : SelectInts, offset : SelectInts, done : {FALSE}]
    /\ ret = <<>>

\* the call of buildSelectAll on the arguments drawn
BuildSelectAll ==
    /\ ~call.done
    /\ call' = [call EXCEPT !.done = TRUE]
    /\ ret' = buildSelectAll(call.cols, call.DbType, call.schema, call.table,
                             call.perPage, call.offset)
    /\ UNCHANGED <<facadeVars, exportVars, historyVars>>

NextSelect == BuildSelectAll

SpecSelect == InitSelect /\ [][NextSelect]_vars

RECURSIVE JoinWith(_, _)
\* the elements of a sequence of texts with sep between neighbours
JoinWith(texts, sep) ==
    IF texts = <<>> THEN <<>>
    ELSE IF Len(texts) = 1 THEN texts[1]
    ELSE texts[1] \o sep \o JoinWith(Tail(texts), sep)

\* the identifiers of cols in input order, each between two marks
Identifiers(cols, mark) == [i \in 1..Len(cols) |-> mark \o cols[i].Field \o mark]

MarkOf(DbType) ==
    IF DbType = "MySQL" THEN <<Backtick>>
    ELSE IF DbType = "PostgreSQL" THEN <<DoubleQuote>>
    ELSE <<>>

\* SELECT <cols> FROM <from> LIMIT <perPage> OFFSET <offset>
SelectText(c, from) ==
    <<"S", "E", "L", "E", "C", "T", " ">>
    \o JoinWith(Identifiers(c.cols, MarkOf(c.DbType)), <<",", " ">>)
    \o <<" ", "F", "R", "O", "M", " ">> \o from
    \o <<" ", "L", "I", "M", "I", "T", " ">> \o Itoa(c.perPage)
    \o <<" ", "O", "F", "F", "S", "E", "T", " ">> \o Itoa(c.offset)

ConnectedClient(t) ==
    [Type |-> t, Name |-> "shop",
     SchemaName |-> setSchemaName(createClient([Type |-> t, Name |-> "shop"])).SchemaName,
     NumTables |-> MaxTables, Database |-> 1]

\* page and perPage as the handler may pass them
TablePages == (0 - 1)..3

InitTable ==
    /\ client = EmptyClient
    /\ handles = <<>>
    /\ gor = [g \in Gors |-> IdleGor]
    /\ resp = NoResp
    /\ ctd = NoCtd
    /\ session = "none"
    /\ ex = <<>>
    /\ fnOwner = 0
    /\ file = NoFile
    /\ written = <<>>
    /\ call \in [t : {MySQL, PostgreSQL, SQLite}, total : 0..MaxRows,
                  page : TablePages, perPage : TablePages, f : 0..3,
                  done : {FALSE}]
    /\ ret = NilConn

\* the call of GetTable on a table of call.total rows, the driver failing
\* at statement call.f
GetTableCall ==
    /\ ~call.done
    /\ call' = [call EXCEPT !.done = TRUE]
    /\ ret' = GetTable(ConnectedHandles, ConnectedClient(call.t), "t1",
                       Rows(call.total), call.page, call.perPage, call.f)
    /\ UNCHANGED <<facadeVars, exportVars, historyVars>>

NextTable == GetTableCall

SpecTable == InitTable /\ [][NextTable]_vars

\* row i of the table as a field -> value mapping, the text as a string
ExpectedRow(i) ==
    [col \in {"id", "name"} |->
        IF col = "id" THEN Cell("int64", i) ELSE Cell("string", i)]

\* C11: for page >= 1 and perPage >= 1 a GetTable that returns a table
\* returns the rows at positions (page-1)*perPage up to
\* min(totalRows, page*perPage)-1 in that order, at most perPage of them,
\* with N_rows the number of rows returned and N_columns = len(Columns).
C11_PageOfRows ==
    (call.done /\ call.page >= 1 /\ call.perPage >= 1 /\ ret.err = NoErr) =>
        LET first == (call.page - 1) * call.perPage
            last == Min(call.total, call.page * call.perPage)
            n == IF last > first THEN last - first ELSE 0
        IN  /\ Len(ret.val.Data) = n
            /\ n <= call.perPage
            /\ \A k \in 1..n : ret.val.Data[k] = ExpectedRow(first + k)
            /\ ret.val.N_rows = n
            /\ ret.val.N_columns = Len(ret.val.Columns)

\* the second page of two rows of a table of three rows: its one row
C11_Witness ==
    /\ call.done
    /\ call.total = 3
    /\ call.page = 2
    /\ call.perPage = 2
    /\ ret.err = NoErr
    /\ Len(ret.val.Data) = 1

(***************************************************************************)
(* pkg/handler/handler.go : total_pages of the table-data handler, for     *)
(* row counts around the halves and for the counts of the documentation.   *)
(***************************************************************************)
RowCounts == 0..MaxCount \cup {250, 251, 274, 275, 276}

PerPages == {1, 2, 3, 4, 50}

InitPages ==
    /\ client = EmptyClient
    /\ handles = <<>>
    /\ gor = [g \in Gors |-> IdleGor]
    /\ resp = NoResp
    /\ ctd = NoCtd
    /\ session = "none"
    /\ ex = <<>>
    /\ fnOwner = 0
    /\ file = NoFile
    /\ written = <<>>
    /\ call \in [rows : RowCounts, perPage : PerPages, done : {FALSE}]
    /\ ret = 0

\* the handler computes total_pages for a table of call.rows rows
TotalPagesCall ==
    /\ ~call.done
    /\ call' = [call EXCEPT !.done = TRUE]
    /\ ret' = TotalPages(call.rows, call.perPage)
    /\ UNCHANGED <<facadeVars, exportVars, historyVars>>

NextPages == TotalPagesCall

SpecPages == InitPages /\ [][NextPages]_vars

\* the integer nearest to a / b, the half going up: the k with
\* 2 b k - b <= 2 a < 2 b k + b
IsNearest(k, a, b) == 2 * b * k - b <= 2 * a /\ 2 * a < 2 * b * k + b

\* C12: for totalRows >= 0 and perPage >= 1 total_pages is
\* max(1, round(totalRows / perPage)) with halves rounded up, hence at least
\* 1; (0,50) gives 1, (250,50) gives 5 and (251,50) gives 5.
C12_TotalPages ==
    call.done =>
        /\ ret >= 1
        /\ \/ ret = 1 /\ \E k \in 0..1 : IsNearest(k, call.rows, call.perPage)
           \/ ret > 1 /\ IsNearest(ret, call.rows, call.perPage)
        /\ (call.rows = 0 /\ call.perPage = 50) => ret = 1
        /\ (call.rows = 250 /\ call.perPage = 50) => ret = 5
        /\ (call.rows = 251 /\ call.perPage = 50) => ret = 5

\* a quotient of exactly one half above an integer, rounded up: 275 / 50
C12_Witness ==
    /\ call.done
    /\ call.rows = 275
    /\ call.perPage = 50
    /\ ret = 6

\* the pages 1..total_pages hold every row of the table
Covered == ret * call.perPage >= call.rows

\* C21 as stated: when totalRows is not a multiple of perPage, the last
\* partial page is covered exactly when the remainder is at least half of
\* perPage.
C21_CoveredIffHalf ==
    (call.done /\ call.rows % call.perPage # 0)
        => (Covered <=> 2 * (call.rows % call.perPage) >= call.perPage)

\* C21: when totalRows is not a multiple of perPage, the last partial page
\* is covered exactly when the table has less than one page of rows or the
\* remainder is at least half of perPage.
C21_CoveredIffHalfOrSinglePage ==
    (call.done /\ call.rows % call.perPage # 0)
        => (Covered <=> (\/ call.rows < call.perPage
                         \/ 2 * (call.rows % call.perPage) >= call.perPage))

\* one row at four rows a page: a remainder below half a page, one page
C21_Witness ==
    /\ call.done
    /\ call.rows = 1
    /\ call.perPage = 4
    /\ ret = 1

(***************************************************************************)
(* pkg/query : UpdateRow on a connected client, for the data types the     *)
(* probes may find.                                                        *)
(***************************************************************************)
\* data types as MySQL and PostgreSQL report them, in several spellings
StringLikeTypes ==
    {<<"V", "A", "R", "C", "H", "A", "R">>, <<"t", "e", "x", "t">>,
     <<"D", "a", "t", "e", "T", "i", "m", "e">>, <<"Y", "E", "A", "R">>,
     <<"t", "i", "m", "e", "s", "t", "a", "m", "p">>,
     <<"n", "c", "h", "a", "r">>}

OtherTypes ==
    {<<"i", "n", "t">>, <<"B", "I", "G", "I", "N", "T">>,
     <<"d", "e", "c", "i", "m", "a", "l">>, <<"t", "i", "n", "y", "i", "n", "t">>,
     <<"i", "n", "t", "e", "r", "v", "a", "l">>}

DataTypes == StringLikeTypes \cup OtherTypes

UpdateValues == {<<"5">>, <<"a", " ", "b">>, <<"a", "'", "b">>}

InitUpdate ==
    /\ client = EmptyClient
    /\ handles = <<>>
    /\ gor = [g \in Gors |-> IdleGor]
    /\ resp = NoResp
    /\ ctd = NoCtd
    /\ session = "none"
    /\ ex = <<>>
    /\ fnOwner = 0
    /\ file = NoFile
    /\ written = <<>>
    /\ call \in [t : {MySQL, PostgreSQL, SQLite},
                  a : {UpdateArgs(<<"t">>, <<"c">>, newVal, <<"7">>, <<"i", "d">>) :
                          newVal \in UpdateValues},
                  colType : DataTypes, keyType : DataTypes, f : 0..3,
                  done : {FALSE}]
    /\ ret = NilConn

\* the call of UpdateRow, the probes finding call.colType and call.keyType
\* and the driver failing at statement call.f
UpdateRowCall ==
    /\ ~call.done
    /\ call' = [call EXCEPT !.done = TRUE]
    /\ ret' = UpdateRow(ConnectedHandles, ConnectedClient(call.t), call.a,
                        call.colType, call.keyType, call.f)
    /\ UNCHANGED <<facadeVars, exportVars, historyVars>>

NextUpdate == UpdateRowCall

SpecUpdate == InitUpdate /\ [][NextUpdate]_vars

\* the i-th statement UpdateRow sent is the UPDATE
SentUpdate(i) == ret.sent[i].q = "SQLUpdateRow"

\* C22: UpdateRow probes the data type of the target column, then that of
\* the key column, and only then executes the UPDATE; if either probe
\* returns an error UpdateRow returns an error and executes no UPDATE.
C22_ProbesBeforeUpdate ==
    call.done =>
        /\ \A i \in 1..Len(ret.sent) :
               SentUpdate(i) =>
                   /\ i = 3
                   /\ ret.sent[1] = Stmt(DataTypeTemplate(call.t), "parentCol", 0, 0)
                   /\ ret.sent[2] = Stmt(DataTypeTemplate(call.t), "priKeyCol", 0, 0)
        /\ (call.f \in {1, 2} \/ DataTypeTemplate(call.t) = "")
               => /\ ret.err # NoErr
                  /\ \A i \in 1..Len(ret.sent) : ~SentUpdate(i)

\* the probe of the key column failed after the probe of the target column
C22_Witness ==
    /\ call.done
    /\ call.f = 2
    /\ Len(ret.sent) = 2
    /\ ret.err = ErrDriver

\* the SQL string literal whose content is text: text between single
\* quotes, every single quote of text written twice
RECURSIVE DoubledQuotes(_)
DoubledQuotes(text) ==
    IF text = <<>> THEN <<>>
    ELSE (IF Head(text) = "'" THEN <<"'", "'">> ELSE <<Head(text)>>)
         \o DoubledQuotes(Tail(text))

StringLiteral(text) == <<"'">> \o DoubledQuotes(text) \o <<"'">>

\* C30: for a string-like column the quoted text UpdateRow substitutes into
\* the UPDATE statement is one well-formed SQL string literal whose content
\* is the supplied value; a single quote in the value does not end it.
C30_ValueIsOneLiteral ==
    (call.done /\ ret.err = NoErr) =>
        ret.val.query =
            <<"U", "P", "D", "A", "T", "E", " ">> \o call.a.table
            \o <<" ", "S", "E", "T", " ">> \o call.a.parentCol \o <<" ", "=", " ">>
            \o (IF call.colType \in StringLikeTypes
                THEN StringLiteral(call.a.newVal) ELSE call.a.newVal)
            \o <<" ", "W", "H", "E", "R", "E", " ">> \o call.a.priKeyCol
            \o <<" ", "=", " ">>
            \o (IF call.keyType \in StringLikeTypes
                THEN StringLiteral(call.a.priKeyVal) ELSE call.a.priKeyVal)

\* a literal as the statement carries it
Literal(text, quoted) == IF quoted THEN <<"'">> \o text \o <<"'">> ELSE text

\* C13: the statement UpdateRow executes is UPDATE <table> SET <col> = <val>
\* WHERE <keyCol> = <keyVal>, <val> in single quotes exactly when the type of
\* the target column is string-like and <keyVal> in single quotes exactly
\* when the type of the key column is, each decided on its own.
C13_UpdateStatement ==
    (call.done /\ ret.err = NoErr) =>
        ret.val.query =
            <<"U", "P", "D", "A", "T", "E", " ">> \o call.a.table
            \o <<" ", "S", "E", "T", " ">> \o call.a.parentCol \o <<" ", "=", " ">>
            \o Literal(call.a.newVal, call.colType \in StringLikeTypes)
            \o <<" ", "W", "H", "E", "R", "E", " ">> \o call.a.priKeyCol
            \o <<" ", "=", " ">>
            \o Literal(call.a.priKeyVal, call.keyType \in StringLikeTypes)

\* an update of a DateTime column by an int key: the value quoted, the key not
C13_Witness ==
    /\ call.done
    /\ ret.err = NoErr
    /\ call.colType = <<"D", "a", "t", "e", "T", "i", "m", "e">>
    /\ call.keyType = <<"i", "n", "t">>
    /\ call.a.newVal = <<"a", " ", "b">>

(***************************************************************************)
(* pkg/client/client.go : getTableHelper on the result sets its callers    *)
(* produce: a select list over the columns of one table, a column          *)
(* possibly listed twice, and the rows of the table.                       *)
(***************************************************************************)
ColumnNames == {"id", "name"}

\* the select lists of one to MaxCols columns
SelectLists == UNION {[1..n -> ColumnNames] : n \in 1..MaxCols}

\* a row of the table: an int64 or NULL key and a text as []byte
TableRowKinds ==
    [id : {Cell("int64", 1), Cell("int64", 2), Cell("nil", 0)},
     name : {Cell("[]byte", "a"), Cell("[]byte", "b")}]

\* the tables of up to MaxRows rows
TableContents == UNION {[1..n -> TableRowKinds] : n \in 0..MaxRows}

\* the values Scan stores for a row under a select list
Scanned(columns, tableRow) ==
    [i \in 1..Len(columns) |-> IF columns[i] = "id" THEN tableRow.id ELSE tableRow.name]

InitDecode ==
    /\ client = EmptyClient
    /\ handles = <<>>
    /\ gor = [g \in Gors |-> IdleGor]
    /\ resp = NoResp
    /\ ctd = NoCtd
    /\ session = "none"
    /\ ex = <<>>
    /\ fnOwner = 0
    /\ file = NoFile
    /\ written = <<>>
    /\ call \in [columns : SelectLists, content : TableContents, done : {FALSE}]
    /\ ret = getTableHelper(<<>>, <<>>)

\* getTableHelper decodes the result set of the select list over the table
Decode ==
    /\ ~call.done
    /\ call' = [call EXCEPT !.done = TRUE]
    /\ ret' = getTableHelper(call.columns,
                             [r \in 1..Len(call.content) |->
                                 Scanned(call.columns, call.content[r])])
    /\ UNCHANGED <<facadeVars, exportVars, historyVars>>

NextDecode == Decode

SpecDecode == InitDecode /\ [][NextDecode]_vars

\* C14: the decoder returns one mapping per result row, in result-set order;
\* in each mapping a cell the driver returned as a byte slice is the string
\* of those bytes and every other cell is the driver's value unchanged.
C14_DecodedRows ==
    call.done =>
        /\ Len(ret.Data) = Len(call.content)
        /\ \A r \in 1..Len(call.content) :
               /\ DOMAIN ret.Data[r] = {call.columns[i] : i \in 1..Len(call.columns)}
               /\ \A i \in 1..Len(call.columns) :
                      LET raw == Scanned(call.columns, call.content[r])[i]
                          cell == ret.Data[r][call.columns[i]]
                      IN  IF raw.type = "[]byte"
                          THEN cell.type = "string" /\ cell.v = raw.v
                          ELSE cell = raw

\* three rows with different keys, a NULL among them, decoded in order
C14_Witness ==
    /\ call.done
    /\ Len(call.content) = 3
    /\ call.content[1].id = Cell("int64", 2)
    /\ call.content[2].id = Cell("nil", 0)
    /\ call.content[3].id = Cell("int64", 1)
    /\ call.columns = <<"name", "id">>
    /\ ret.N_rows = 3

\* C29: every row mapping the decoder produces has one entry per column of
\* the result set: its number of keys is the reported column count, also
\* when two columns of the result set carry the same name.
C29_OneEntryPerColumn ==
    call.done =>
        \A r \in 1..Len(ret.Data) :
            Cardinality(DOMAIN ret.Data[r]) = ret.N_columns

(***************************************************************************)
(* pkg/client/client.go : ExportToCSV and sqlToCsv.  The csv.Writer writes *)
(* into a buffer and hands the buffer to the strings.Builder when it is    *)
(* full or when Flush is called; sqlToCsv defers the Flush.                *)
(***************************************************************************)
\* the size of the writer's buffer, scaled from 4096 to the texts of the model
BufSize == 16

NewLine == "\n"

\* the columns SELECT * reports for the table, as texts
CsvColumns == <<<<"i", "d">>, <<"n", "a", "m", "e">>>>

\* the text fmt's %v writes for a scanned value
FormatValue(raw) ==
    IF raw.type = "nil" THEN <<"<", "n", "i", "l", ">">>
    ELSE IF raw.type = "int64" THEN Itoa(raw.v)
    ELSE <<raw.v>>

\* the record of texts for a row of the table
CsvRecord(tableRow) == <<FormatValue(tableRow.id), FormatValue(tableRow.name)>>

RECURSIVE CsvLine(_)
\* the line csv.Writer.Write produces for fields that need no quoting
CsvLine(fields) ==
    IF fields = <<>> THEN <<NewLine>>
    ELSE IF Len(fields) = 1 THEN fields[1] \o <<NewLine>>
    ELSE fields[1] \o <<",">> \o CsvLine(Tail(fields))

NewWriter == [buf |-> <<>>, builder |-> <<>>]

RECURSIVE WriterWrite(_, _)
\* the buffered write: a full buffer is handed to the builder before the
\* next character is stored
WriterWrite(w, text) ==
    IF text = <<>> THEN w
    ELSE IF Len(w.buf) >= BufSize
    THEN WriterWrite([buf |-> <<Head(text)>>, builder |-> w.builder \o w.buf],
                     Tail(text))
    ELSE WriterWrite([w EXCEPT !.buf = Append(w.buf, Head(text))], Tail(text))

WriterFlush(w) == [buf |-> <<>>, builder |-> w.builder \o w.buf]

CsvResult(err, text) == [err |-> err, text |-> text]

InitCsv ==
    /\ client = EmptyClient
    /\ handles = <<>>
    /\ gor = [g \in Gors |-> IdleGor]
    /\ resp = NoResp
    /\ ctd = NoCtd
    /\ session = "none"
    /\ ex = <<>>
    /\ fnOwner = 0
    /\ file = NoFile
    /\ written = <<>>
    /\ call \in [content : TableContents, f : {0, 1}, pc : {"query"},
                 i : {1}, w : {NewWriter}]
    /\ ret = CsvResult(NoErr, <<>>)

\* c.Database.Query: a driver error is returned as it is
CsvQuery ==
    /\ call.pc = "query"
    /\ IF call.f = 1
       THEN /\ call' = [call EXCEPT !.pc = "returned"]
            /\ ret' = CsvResult(ErrDriver, <<>>)
       ELSE /\ call' = [call EXCEPT !.pc = "headers"]
            /\ ret' = ret
    /\ UNCHANGED <<facadeVars, exportVars, historyVars>>

\* writer.Write(headers)
CsvHeaders ==
    /\ call.pc = "headers"
    /\ call' = [call EXCEPT !.pc = "rows", !.w = WriterWrite(call.w, CsvLine(CsvColumns))]
    /\ UNCHANGED <<ret, facadeVars, exportVars, historyVars>>

\* one turn of the loop over rows.Next: Scan, format, writer.Write(row)
CsvRow ==
    /\ call.pc = "rows"
    /\ call.i <= Len(call.content)
    /\ call' = [call EXCEPT !.i = call.i + 1,
                            !.w = WriterWrite(call.w,
                                      CsvLine(CsvRecord(call.content[call.i])))]
    /\ UNCHANGED <<ret, facadeVars, exportVars, historyVars>>

\* return builder.String(), nil: the result is taken before deferred calls run
CsvReturn ==
    /\ call.pc = "rows"
    /\ call.i > Len(call.content)
    /\ call' = [call EXCEPT !.pc = "deferred"]
    /\ ret' = CsvResult(NoErr, call.w.builder)
    /\ UNCHANGED <<facadeVars, exportVars, historyVars>>

\* the deferred writer.Flush(); the result, a string value, is not touched
CsvFlush ==
    /\ call.pc = "deferred"
    /\ call' = [call EXCEPT !.pc = "returned", !.w = WriterFlush(call.w)]
    /\ UNCHANGED <<ret, facadeVars, exportVars, historyVars>>

NextCsv == CsvQuery \/ CsvHeaders \/ CsvRow \/ CsvReturn \/ CsvFlush

SpecCsv == InitCsv /\ [][NextCsv]_vars

RECURSIVE Flatten(_)
Flatten(texts) == IF texts = <<>> THEN <<>> ELSE Head(texts) \o Flatten(Tail(texts))

\* the header line followed by one line per row of the table
FullCsv(content) ==
    CsvLine(CsvColumns)
        \o Flatten([r \in 1..Len(content) |-> CsvLine(CsvRecord(content[r]))])

\* C16: the text ExportToCSV returns is the complete export, the header
\* line and one line per row, also for tables whose text is shorter than
\* the writer's buffer.
C16_CsvComplete ==
    (call.pc = "returned" /\ ret.err = NoErr) => ret.text = FullCsv(call.content)

(***************************************************************************)
(* db/connection/connection.go : the JSON form of a Connection.  A JSON    *)
(* object is a record over the keys of the struct tags; databaseType       *)
(* travels as the name of the type.                                        *)
(***************************************************************************)
\* the DbType constants type.go declares
DeclaredTypes == {MySQL, PostgreSQL, SQLite, Unsupported}

Connection(host, port, user, password, name, type, path) ==
    [Host |-> host, Port |-> port, User |-> user, Password |-> password,
     Name |-> name, Type |-> type, Path |-> path]

\* func (c *Connection) MarshalJSON
MarshalJSON(c) ==
    [host |-> c.Host, port |-> c.Port, user |-> c.User, password |-> c.Password,
     database |-> c.Name, databaseType |-> TypeString(c.Type), path |-> c.Path]

\* func (c *Connection) UnmarshalJSON
UnmarshalJSON(obj) ==
    [Host |-> obj.host, Port |-> obj.port, User |-> obj.user,
     Password |-> obj.password, Name |-> obj.database,
     Type |-> parseDbType(obj.databaseType), Path |-> obj.path]

Connections ==
    [Host : {"localhost", "db"}, Port : {0, 3306, 5432}, User : {"", "root"},
     Password : {"", "pw"}, Name : {"", "shop"}, Type : DbTypes,
     Path : {"", "/tmp/a.db"}]

InitJson ==
    /\ client = EmptyClient
    /\ handles = <<>>
    /\ gor = [g \in Gors |-> IdleGor]
    /\ resp = NoResp
    /\ ctd = NoCtd
    /\ session = "none"
    /\ ex = <<>>
    /\ fnOwner = 0
    /\ file = NoFile
    /\ written = <<>>
    /\ call \in [conn : Connections, done : {FALSE}]
    /\ ret = Connection("", 0, "", "", "", ZeroType, "")

\* json.Marshal of the Connection, then json.Unmarshal of the text
MarshalUnmarshal ==
    /\ ~call.done
    /\ call' = [call EXCEPT !.done = TRUE]
    /\ ret' = UnmarshalJSON(MarshalJSON(call.conn))
    /\ UNCHANGED <<facadeVars, exportVars, historyVars>>

NextJson == MarshalUnmarshal

SpecJson == InitJson /\ [][NextJson]_vars

\* C19: for a Connection whose Type is a declared DbType constant,
\* unmarshaling the JSON produced by marshaling it yields an equal
\* Connection: the type survives the trip through its name and every other
\* field is preserved.
C19_JsonRoundTrip ==
    (call.done /\ call.conn.Type \in DeclaredTypes) => ret = call.conn

\* a PostgreSQL profile has made the round trip
C19_Witness ==
    /\ call.done
    /\ call.conn = Connection("db", 5432, "root", "pw", "shop", PostgreSQL, "")
    /\ ret.Type = PostgreSQL

(***************************************************************************)
(* pkg/config : the connection history file.  The file is a sequence of    *)
(* tokens: the punctuation of JSON, each one byte, the line feed, and the  *)
(* two members of a ConnectionHistory object.                              *)
(***************************************************************************)
\* the number of records stored in one behaviour
MaxSaved == 3

Tok(kind, v) == [tok |-> kind, v |-> v]

P(kind) == Tok(kind, "")

ErrJson == "invalid JSON"

NewConnectionConfig(key, connection) == [Schema |-> key, Connection |-> connection]

\* json.MarshalIndent(conf, "", "\t"): {"key": ..., "connection": {...}}
MarshalIndent(conf) ==
    <<P("{"), Tok("key", conf.Schema), P(","),
      Tok("connection", MarshalJSON(conf.Connection)), P("}")>>

\* an offset that leaves the file pointer at the end of the file
SeekToEnd(f) == Len(f)

\* file.Seek(-2, io.SeekEnd): just before the line feed and the closing bracket
SeekEnd(f) == Len(f) - 2

\* file.WriteString at offset pos: bytes already there are overwritten
WriteString(f, pos, text) ==
    SubSeq(f, 1, pos) \o text \o SubSeq(f, pos + Len(text) + 1, Len(f))

WriteToFile(f, conf, fails) ==
    LET data == MarshalIndent(conf)
    IN  IF fails THEN [file |-> f, bits |-> 0, err |-> ErrFile]
        ELSE IF f = NoFile
        THEN LET text == <<P("["), P(NewLine)>> \o data \o <<P(NewLine), P("]")>>
             IN  [file |-> text, bits |-> Len(text), err |-> NoErr]
        ELSE IF SeekEnd(f) < 0 THEN [file |-> f, bits |-> 0, err |-> ErrFile]
        ELSE LET text == <<P(NewLine), P(",")>> \o data \o <<P(NewLine), P("]")>>
             IN  [file |-> WriteString(f, SeekEnd(f), text), bits |-> Len(text),
                  err |-> NoErr]

\* the text without the white space JSON allows between tokens
NoSpace(text) == SelectSeq(text, LAMBDA t : t.tok # NewLine)

BadJson == [ok |-> FALSE, items |-> <<>>]

RECURSIVE UnmarshalElements(_, _)
\* the elements of an array after its opening bracket: objects of the two
\* members, separated by commas, up to the closing bracket that ends the text
UnmarshalElements(t, acc) ==
    IF Len(t) < 6 THEN BadJson
    ELSE IF ~(/\ t[1].tok = "{" /\ t[2].tok = "key" /\ t[3].tok = ","
              /\ t[4].tok = "connection" /\ t[5].tok = "}")
    THEN BadJson
    ELSE LET item == NewConnectionConfig(t[2].v, UnmarshalJSON(t[4].v))
             items == Append(acc, item)
         IN  IF t[6].tok = "]"
             THEN IF Len(t) = 6 THEN [ok |-> TRUE, items |-> items] ELSE BadJson
             ELSE IF t[6].tok = ","
             THEN UnmarshalElements(SubSeq(t, 7, Len(t)), items)
             ELSE BadJson

\* json.Unmarshal(bytes, &connections)
Unmarshal(text) ==
    LET t == NoSpace(text)
    IN  IF t = <<>> \/ t[1].tok # "[" THEN BadJson
        ELSE IF Len(t) = 2 /\ t[2].tok = "]" THEN [ok |-> TRUE, items |-> <<>>]
        ELSE UnmarshalElements(Tail(t), <<>>)

GetSavedConnections(f) ==
    IF f = NoFile THEN [err |-> ErrFile, val |-> <<>>]
    ELSE LET connections == Unmarshal(f)
         IN  IF ~connections.ok THEN [err |-> ErrJson, val |-> <<>>]
             ELSE [err |-> NoErr,
                   val |-> [i \in 1..Len(connections.items) |->
                               connections.items[i].Connection]]

\* the connections SaveConnection receives from parseConnectionRequest
SavedProfiles ==
    {Connection("localhost", 3306, "root", "pw", name, type, "") :
        name \in {"shop", "blog"}, type \in DeclaredTypes}

NoCallYet == [op |-> "none", err |-> NoErr, val |-> <<>>, n |-> 0]

InitHistory ==
    /\ client = EmptyClient
    /\ handles = <<>>
    /\ gor = [g \in Gors |-> IdleGor]
    /\ resp = NoResp
    /\ ctd = NoCtd
    /\ session = "none"
    /\ ex = <<>>
    /\ fnOwner = 0
    /\ file = NoFile
    /\ written = <<>>
    /\ call = NoArgs
    /\ ret = NoCallYet

\* the SaveConnection handler: NewConnectionConfig(conn.Name, conn), WriteToFile
SaveConnection(conn, fails) ==
    /\ Len(written) < MaxSaved
    /\ LET conf == NewConnectionConfig(conn.Name, conn)
           r == WriteToFile(file, conf, fails)
           stored == IF r.err = NoErr THEN Append(written, conf) ELSE written
       IN  /\ file' = r.file
           /\ written' = stored
           /\ ret' = [op |-> "WriteToFile", err |-> r.err, val |-> r.bits,
                      n |-> Len(stored)]
    /\ UNCHANGED <<call, facadeVars, exportVars>>

\* the SavedConnectionsHandler: GetSavedConnections
SavedConnectionsHandler ==
    /\ LET r == GetSavedConnections(file)
       IN  ret' = [op |-> "GetSavedConnections", err |-> r.err, val |-> r.val,
                   n |-> Len(written)]
    /\ UNCHANGED <<call, file, written, facadeVars, exportVars>>

NextHistory ==
    \/ \E conn \in SavedProfiles, fails \in BOOLEAN : SaveConnection(conn, fails)
    \/ SavedConnectionsHandler

SpecHistory == InitHistory /\ [][NextHistory]_vars

RECURSIVE ArrayText(_)
\* the tokens of a JSON array of the given records, in order
ArrayText(confs) ==
    IF confs = <<>> THEN <<P("]")>>
    ELSE <<P("{"), Tok("key", confs[1].Schema), P(","),
           Tok("connection", MarshalJSON(confs[1].Connection)), P("}")>>
         \o (IF Len(confs) = 1 THEN <<>> ELSE <<P(",")>>)
         \o ArrayText(Tail(confs))

\* C18: starting from no history file, after n >= 1 successful WriteToFile
\* calls the file is a well-formed JSON array of exactly the n records in
\* call order, and GetSavedConnections returns the n connections in that
\* order.
C18_HistoryFile ==
    /\ written # <<>> => NoSpace(file) = <<P("[")>> \o ArrayText(written)
    /\ (ret.op = "GetSavedConnections" /\ ret.n >= 1)
           => /\ ret.err = NoErr
              /\ ret.val = [i \in 1..ret.n |-> written[i].Connection]

\* three records stored and read back
C18_Witness ==
    /\ Len(written) = 3
    /\ written[1].Connection.Type = SQLite
    /\ written[2].Schema # written[1].Schema
    /\ ret.op = "GetSavedConnections"
    /\ ret.n = 3
    /\ Len(ret.val) = 3

(***************************************************************************)
(* pkg/query : ExecuteQuery on the text of the request.  The text is a     *)
(* sequence of characters; it reaches the driver through                   *)
(* fmt.Sprintf(q.SQLQuery), a format with no operands.                     *)
(***************************************************************************)
\* the length of the texts submitted
MaxQueryLen == 3

RECURSIVE SprintfNoOperands(_)
\* fmt.Sprintf(format) for a format of letters, quotes and percent signs:
\* %% writes one percent sign, a percent sign before another character is a
\* verb with no operand, and one that ends the format has no verb
SprintfNoOperands(format) ==
    IF format = <<>> THEN <<>>
    ELSE IF Head(format) # "%"
    THEN <<Head(format)>> \o SprintfNoOperands(Tail(format))
    ELSE IF Len(format) = 1
    THEN <<"%", "!", "(", "N", "O", "V", "E", "R", "B", ")">>
    ELSE IF format[2] = "%"
    THEN <<"%">> \o SprintfNoOperands(Tail(Tail(format)))
    ELSE <<"%", "!", format[2], "(", "M", "I", "S", "S", "I", "N", "G", ")">>
         \o SprintfNoOperands(Tail(Tail(format)))

\* result = &Result{...} as execQueryHelper returns it
execQueryHelper(columns, rawRows) ==
    LET Data == [r \in 1..Len(rawRows) |-> DecodeRow(columns, rawRows[r])]
    IN  [isNil |-> FALSE, Data |-> Data, AffectedRows |-> Len(Data)]

\* the nil *Result
NilResult == [isNil |-> TRUE, Data |-> <<>>, AffectedRows |-> 0]

\* ExecuteQuery with the text handed to the driver and the Result built
\* from the rows the driver answers
ExecuteRawQuery(hs, c, q, columns, rawRows, f) ==
    LET r == ExecuteQuery(hs, c, f)
        reached == \E i \in 1..Len(r.sent) : r.sent[i].q = "q.SQLQuery"
    IN  [err |-> r.err, sent |-> r.sent, failed |-> r.failed,
         query |-> IF reached THEN SprintfNoOperands(q.SQLQuery) ELSE <<>>,
         reached |-> reached,
         val |-> IF r.err = NoErr /\ reached
                 THEN execQueryHelper(columns, rawRows)
                 ELSE NilResult]

\* the texts of up to MaxQueryLen characters over a letter, the quote and
\* the percent sign
QueryTexts == UNION {[1..n -> {"a", "'", "%"}] : n \in 0..MaxQueryLen}

\* the rows a statement may answer
AnsweredRows ==
    <<[id |-> Cell("int64", 1), name |-> Cell("[]byte", "a")],
      [id |-> Cell("nil", 0), name |-> Cell("[]byte", "b")]>>

InitQuery ==
    /\ client = EmptyClient
    /\ handles = <<>>
    /\ gor = [g \in Gors |-> IdleGor]
    /\ resp = NoResp
    /\ ctd = NoCtd
    /\ session = "none"
    /\ ex = <<>>
    /\ fnOwner = 0
    /\ file = NoFile
    /\ written = <<>>
    /\ call \in [t : {MySQL, PostgreSQL, SQLite}, q : [SQLQuery : QueryTexts],
                 columns : SelectLists, n : 0..Len(AnsweredRows), f : 0..2,
                 done : {FALSE}]
    /\ ret = [err |-> NoErr, sent |-> <<>>, failed |-> FALSE, query |-> <<>>,
              reached |-> FALSE, val |-> NilResult]

\* QueryHandler: query.ExecuteQuery(q, h.client) on a connected client
QueryHandler ==
    /\ ~call.done
    /\ \E r \in {ExecuteRawQuery(ConnectedHandles, ConnectedClient(call.t), call.q,
                                 call.columns,
                                 [i \in 1..call.n |->
                                     Scanned(call.columns, AnsweredRows[i])],
                                 call.f)} :
           /\ call.f <= Len(r.sent)
           /\ ret' = r
    /\ call' = [call EXCEPT !.done = TRUE]
    /\ UNCHANGED <<facadeVars, exportVars, historyVars>>

NextQuery == QueryHandler

SpecQuery == InitQuery /\ [][NextQuery]_vars

\* C26: on a MySQL or PostgreSQL session the text passed to the driver is
\* character for character the text submitted, percent signs included.
C26_TextPassedUnchanged ==
    (call.done /\ call.t \in {MySQL, PostgreSQL} /\ ret.reached)
        => ret.query = call.q.SQLQuery

\* C27: on a connected client of a supported dialect ExecuteQuery returns a
\* non-nil Result or a non-nil error, never (nil, nil), and AffectedRows of
\* a returned Result is the number of rows in Data.
C27_ResultOrError ==
    call.done =>
        /\ ret.err # NoErr \/ ~ret.val.isNil
        /\ ~ret.val.isNil => ret.val.AffectedRows = Len(ret.val.Data)

(***************************************************************************)
(* db/sql/statement.go : the column-information statements, evaluated on   *)
(* a table whose columns are declared with one key kind each, and          *)
(* pkg/client/client.go : getColumnsHelper scanning their rows.            *)
(***************************************************************************)
MaxKeyCols == 2

\* how a column of the table is declared
KeyKinds == {"none", "primary", "unique", "index", "foreign"}

TableDecls == UNION {[1..n -> KeyKinds] : n \in 1..MaxKeyCols}

\* MySQLColumnsInfo selects INFORMATION_SCHEMA.COLUMNS.COLUMN_KEY as Key:
\* the server reports PRI, UNI, MUL or the empty text
MySQLColumnsInfo(decl) ==
    [i \in 1..Len(decl) |->
        [Field |-> i,
         Key |-> CASE decl[i] = "primary" -> "PRI"
                   [] decl[i] = "unique" -> "UNI"
                   [] decl[i] \in {"index", "foreign"} -> "MUL"
                   [] OTHER -> ""]]

\* PostgreSQLColumnsInfo computes Key by a CASE over the constraint type
\* joined to the column: PRIMARY KEY, FOREIGN KEY, anything else or none
PostgreSQLColumnsInfo(decl) ==
    [i \in 1..Len(decl) |->
        [Field |-> i,
         Key |-> CASE decl[i] = "primary" -> "PRI"
                   [] decl[i] = "foreign" -> "MUL"
                   [] OTHER -> ""]]

\* getColumnsHelper: the query fails, or every row is scanned into a Column
getColumnsHelper(rows, f) ==
    IF f = 1 THEN [err |-> ErrDriver, cols |-> <<>>]
    ELSE [err |-> NoErr, cols |-> rows]

\* GetColumns on a connected client of dialect t
GetColumnsOfDecl(t, decl, f) ==
    IF IsDialect(t, MySQL) THEN getColumnsHelper(MySQLColumnsInfo(decl), f)
    ELSE IF IsDialect(t, PostgreSQL) THEN
        getColumnsHelper(PostgreSQLColumnsInfo(decl), f)
    ELSE [err |-> NoErr, cols |-> <<>>]

InitColumns ==
    /\ client = EmptyClient
    /\ handles = <<>>
    /\ gor = [g \in Gors |-> IdleGor]
    /\ resp = NoResp
    /\ ctd = NoCtd
    /\ session = "none"
    /\ ex = <<>>
    /\ fnOwner = 0
    /\ file = NoFile
    /\ written = <<>>
    /\ call \in [t : {MySQL, PostgreSQL}, decl : TableDecls, f : 0..1,
                 done : {FALSE}]
    /\ ret = [err |-> NoErr, cols |-> <<>>]

ColumnsHandler ==
    /\ ~call.done
    /\ call' = [call EXCEPT !.done = TRUE]
    /\ ret' = GetColumnsOfDecl(call.t, call.decl, call.f)
    /\ UNCHANGED <<facadeVars, exportVars, historyVars>>

NextColumns == ColumnsHandler

SpecColumns == InitColumns /\ [][NextColumns]_vars

\* C28: every Column returned by GetColumns has a Key that is empty, PRI or
\* MUL, and Key is PRI only for a column of the declared primary key.
C28_KeyRoles ==
    (call.done /\ ret.err = NoErr) =>
        \A i \in 1..Len(ret.cols) :
            /\ ret.cols[i].Key \in {"", "PRI", "MUL"}
            /\ ret.cols[i].Key = "PRI" => call.decl[i] = "primary"

(***************************************************************************)
(* Properties of the facade, checked under Spec unless said otherwise.     *)
(***************************************************************************)
Idle == gor[1].pc = "idle"

\* the facade states the contract calls Disconnected: no Connect has
\* succeeded yet, the last Connect failed, or the last Disconnect succeeded
Disconnected == Idle /\ session \in {"none", "connectFailed", "disconnected"}

OpenHandles == {h \in 1..Len(handles) : handles[h].state = "open"}

DataAccessOps == {"GetSchemaNames", "GetTableNames", "GetColumns", "GetTable",
                  "GetTablesSize", "ExportToJson", "ExportToCSV",
                  "ShowCreateTable", "UpdateRow", "ExecuteQuery"}

\* C1: a data-access operation invoked while the facade is Disconnected
\* returns the no-active-connection error and sends no statement to the
\* database handle.
C1_DisconnectedFailsFast ==
    (Disconnected /\ resp.op \in DataAccessOps)
        => (resp.err = ErrNilConn /\ resp.sent = <<>>)

\* C2: a Connect request that fails leaves the facade holding no open
\* database handle, and a Connect request that succeeds leaves it holding a
\* handle that is open, pinged and probed, with the schema name resolved for
\* MySQL and PostgreSQL.
C2_FailedConnectDisconnects ==
    (Idle /\ resp.op = "Connect") =>
        IF resp.err # NoErr
        THEN ~IsOpen(handles, client.Database)
        ELSE /\ IsOpen(handles, client.Database)
             /\ handles[client.Database].pinged
             /\ handles[client.Database].probed
             /\ (client.Type \in {MySQL, PostgreSQL} => client.SchemaName # "")

\* C3: ConnectToDatabase returns either a handle on which Ping and the probe
\* succeeded together with a nil error, or a nil handle together with an
\* error after closing every handle it opened; never a handle and an error.
C3_ConnectResult ==
    ctd.calls = 1 =>
        \/ /\ ctd.err = NoErr
           /\ ctd.db # Nil
           /\ ctd.db = ctd.opened
           /\ handles[ctd.db].pinged
           /\ handles[ctd.db].probed
        \/ /\ ctd.err # NoErr
           /\ ctd.db = Nil
           /\ (ctd.opened # Nil => handles[ctd.opened].state = "closed")

\* a ConnectToDatabase call that opened a handle, pinged it, and failed at
\* the probe
C3_Witness ==
    /\ ctd.calls = 1
    /\ ctd.err # NoErr
    /\ ctd.opened # Nil
    /\ handles[ctd.opened].pinged

\* C4: between requests at most one handle opened by Connect is open, and
\* an open handle is the one the active client holds.
C4_OneOpenHandle ==
    Idle => /\ Cardinality(OpenHandles) <= 1
            /\ \A h \in OpenHandles : h = client.Database

UnsupportedOps == {"GetSchemaNames", "GetTableNames", "GetColumns",
                   "CountTableRows", "GetTablesSize", "GetTableSize",
                   "ShowCreateTable", "ExecuteQuery"}

\* C5 (checked under SpecConc): on a client whose dialect is Unsupported
\* every operation returns a non-nil error, and so does ConnectToDatabase.
C5_UnsupportedRejected ==
    /\ (resp.op \in UnsupportedOps /\ resp.ctype = Unsupported) => resp.err # NoErr
    /\ (ctd.calls = 1 /\ ctd.dbType = TypeString(Unsupported)) => ctd.err # NoErr

\* C8: an operation one of whose statements failed in the driver returns a
\* non-nil error.
C8_DriverErrorReturned == resp.failed => resp.err # NoErr

\* C17: Disconnect on a handle that has already been closed returns a
\* non-nil error; the already-closed condition is not reported as success.
C17_SecondDisconnectFails ==
    (resp.op = "Disconnect" /\ resp.wasClosed) => resp.err # NoErr

\* C20: ConnectToDatabase called for a Connection of type SQLite returns an
\* error and a nil handle.
C20_SQLiteRejected ==
    (ctd.calls > 0 /\ ToLower(ctd.dbType) = ToLower(TypeString(SQLite)))
        => (ctd.err # NoErr /\ ctd.db = Nil)

\* C23: a Disconnect request received while the client holds a nil database
\* handle returns an error to the caller and does not dereference the handle.
C23_NilDisconnectReturnsError ==
    (resp.op = "Disconnect" /\ ~resp.hadDb) => (resp.err # NoErr /\ resp.err # Panic)

\* goroutine h is inside a Connect request whose profile the shared client holds
ConnectingAs(h) ==
    /\ gor[h].pc # "idle"
    /\ client.Type = gor[h].conn.Type
    /\ client.Name = gor[h].conn.Name

\* C24: a data-access request that runs while a Connect request is in
\* progress never finds the shared client with the new profile but a nil
\* handle, or with a handle but an unset schema name.
C24_SessionObservedWhole ==
    [][(/\ resp' # resp
        /\ resp'.op \in DataAccessOps
        /\ \E h \in Gors \ {resp'.g} : ConnectingAs(h))
           => /\ client.Database # Nil
              /\ client.Type \in {MySQL, PostgreSQL} => client.SchemaName # ""]_vars

\* the step in which the Connect request of goroutine g answers an error
ConnectFails(g) ==
    /\ gor[g].pc # "idle"
    /\ gor'[g].pc = "idle"
    /\ resp'.op = "Connect"
    /\ resp'.err # NoErr

\* the handle the failing request itself opened, if it got that far
OwnHandle(g) == IF gor[g].pc = "connecting" THEN ctd'.opened ELSE client.Database

\* C25: a Connect request that fails while a session is active leaves the
\* session unchanged: the shared client still holds the open handle of the
\* previous session.
C25_FailedConnectKeepsSession ==
    [][\A g \in Gors :
          (session = "connected" /\ ConnectFails(g))
              => /\ IsOpen(handles', client'.Database)
                 /\ client'.Database # OwnHandle(g)]_vars

SizeOps == {"GetSchemaSize", "GetTableSize", "GetTablesSize", "GetTable"}

\* C15: on an SQLite session every operation that reports a table or schema
\* size returns an error; none returns a nil error.
C15_SQLiteSizeUnsupported ==
    (resp.op \in SizeOps /\ resp.ctype = SQLite /\ resp.hadDb) => resp.err # NoErr

SelectTemplates == {SelectTemplate(t) : t \in DbTypes}

\* C10: the offset GetTable passes to buildSelectAll for an accepted
\* table-data request is at least 0.
C10_OffsetNonNegative ==
    resp.op = "TableData" =>
        \A i \in 1..Len(resp.sent) :
            resp.sent[i].q \in SelectTemplates => resp.sent[i].n2 >= 0

=============================================================================
